---------------------------- MODULE Spec2Model ----------------------------
(***************************************************************************)
(* jobly: job ingestion, deduplication, scoring and the application run.   *)
(*                                                                         *)
(* Strings are TLA+ strings handled character by character (Len, SubSeq,   *)
(* \o), so that parsing, percent-encoding and case folding are computed    *)
(* the way the Python code computes them.  The alphabet is printable       *)
(* ASCII.                                                                  *)
(***************************************************************************)
EXTENDS Integers, Sequences, FiniteSets, TLC

(***************************************************************************)
(* String primitives (Python str methods used by the source).              *)
(***************************************************************************)

\* printable ASCII, code 32 (space) .. 126 (~); Char(Ascii, n - 31) is chr(n).
\* The backquote (code 96) cannot be written in a TLA+ string: a tab holds its
\* place and is not part of the alphabet.
Ascii == " !\"#$%&'()*+,-./0123456789:;<=>?@ABCDEFGHIJKLMNOPQRSTUVWXYZ[\\]^_\tabcdefghijklmnopqrstuvwxyz{|}~"

UpperLetters == "ABCDEFGHIJKLMNOPQRSTUVWXYZ"

LowerLetters == "abcdefghijklmnopqrstuvwxyz"

Digits == "0123456789"

HexUpper == "0123456789ABCDEF"

HexLower == "0123456789abcdef"

\* s[m-1:n] of Python (1-based, both ends included, clamped to the string)
Slice(s, m, n) ==
    IF m > n \/ m > Len(s) THEN "" ELSE SubSeq(s, m, IF n > Len(s) THEN Len(s) ELSE n)

Char(s, i) == Slice(s, i, i)

Take(s, n) == Slice(s, 1, n)

Drop(s, n) == Slice(s, n + 1, Len(s))

\* c in s, for a one-character string c
InStr(c, s) == \E i \in 1..Len(s) : Char(s, i) = c

\* 1-based index of c in s (c occurs in s)
IndexOf(c, s) == CHOOSE i \in 1..Len(s) : Char(s, i) = c

\* least element of a set of indices, 0 (not found) when it is empty
Least(I) == IF I = {} THEN 0 ELSE CHOOSE i \in I : \A j \in I : i <= j

\* greatest element of a set of indices, 0 (not found) when it is empty
Greatest(I) == IF I = {} THEN 0 ELSE CHOOSE i \in I : \A j \in I : i >= j

\* str.find(sub, start): least 1-based index >= start where sub occurs, 0 if none
Find(s, sub, start) ==
    Least({i \in start..(Len(s) - Len(sub) + 1) : Slice(s, i, i + Len(sub) - 1) = sub})

\* str.rfind(sub): greatest 1-based index where sub occurs, 0 if none
RFind(s, sub) ==
    Greatest({i \in 1..(Len(s) - Len(sub) + 1) : Slice(s, i, i + Len(sub) - 1) = sub})

\* sub in s
Contains(sub, s) == sub = "" \/ Find(s, sub, 1) # 0

\* s.startswith(p)
StartsWith(s, p) == Take(s, Len(p)) = p

LowerChar(c) == IF InStr(c, UpperLetters) THEN Char(LowerLetters, IndexOf(c, UpperLetters)) ELSE c

UpperChar(c) == IF InStr(c, LowerLetters) THEN Char(UpperLetters, IndexOf(c, LowerLetters)) ELSE c

\* str.lower(), the string halved at each step
RECURSIVE lower(_)
lower(s) ==
    IF Len(s) <= 1 THEN LowerChar(s)
    ELSE lower(Take(s, Len(s) \div 2)) \o lower(Drop(s, Len(s) \div 2))

\* str.upper(), the string halved at each step
RECURSIVE upper(_)
upper(s) ==
    IF Len(s) <= 1 THEN UpperChar(s)
    ELSE upper(Take(s, Len(s) \div 2)) \o upper(Drop(s, Len(s) \div 2))

RECURSIVE lstrip(_, _)
lstrip(s, chars) ==
    IF s # "" /\ InStr(Head(s), chars) THEN lstrip(Tail(s), chars) ELSE s

RECURSIVE rstrip(_, _)
rstrip(s, chars) ==
    IF s # "" /\ InStr(Char(s, Len(s)), chars) THEN rstrip(Take(s, Len(s) - 1), chars) ELSE s

\* str.strip() with no argument; the whitespace of the alphabet is the space
strip(s) == rstrip(lstrip(s, " "), " ")

\* s.split(sep) for a one-character sep: the list of pieces
RECURSIVE split(_, _)
split(s, sep) ==
    LET i == Find(s, sep, 1)
    IN  IF i = 0 THEN <<s>> ELSE <<Take(s, i - 1)>> \o split(Drop(s, i), sep)

\* sep.join(parts)
RECURSIVE join(_, _)
join(parts, sep) ==
    IF parts = <<>> THEN ""
    ELSE IF Len(parts) = 1 THEN parts[1]
    ELSE parts[1] \o sep \o join(Tail(parts), sep)

(***************************************************************************)
(* urllib.parse, as called by src/app/utils/hashing.py.                    *)
(***************************************************************************)

\* urllib.parse.scheme_chars
scheme_chars == LowerLetters \o UpperLetters \o Digits \o "+-."

\* schemes of urllib.parse.uses_params / uses_netloc the alphabet can spell
uses_params == {"", "ftp", "hdl", "prospero", "http", "imap", "https", "shttp", "rtsp", "rtspu", "sip", "sips", "mms", "sftp", "tel"}

uses_netloc == {"", "ftp", "http", "gopher", "nntp", "telnet", "imap", "wais", "file", "mms", "https", "shttp", "snews", "prospero", "rtsp", "rtspu", "rsync", "svn", "svn+ssh", "sftp", "nfs", "git", "git+ssh", "ws", "wss"}

\* quote_plus never encodes these (_ALWAYS_SAFE)
AlwaysSafe == UpperLetters \o LowerLetters \o Digits \o "_.-~"

IsHex(c) == InStr(c, HexUpper) \/ InStr(c, HexLower)

HexVal(c) == IF InStr(c, HexUpper) THEN IndexOf(c, HexUpper) - 1 ELSE IndexOf(c, HexLower) - 1

\* s[i..i+2] is an escape %XX of a printable ASCII character
IsEscape(s, i) ==
    /\ i >= 1
    /\ Char(s, i) = "%"
    /\ i + 2 <= Len(s)
    /\ IsHex(Char(s, i + 1))
    /\ IsHex(Char(s, i + 2))
    /\ 16 * HexVal(Char(s, i + 1)) + HexVal(Char(s, i + 2)) \in 32..126

\* what the character at i becomes: the two digits of an escape vanish, the
\* escape becomes its character, "+" a blank
unquote_at(s, i) ==
    IF IsEscape(s, i - 1) \/ IsEscape(s, i - 2) THEN ""
    ELSE IF IsEscape(s, i)
    THEN Char(Ascii, 16 * HexVal(Char(s, i + 1)) + HexVal(Char(s, i + 2)) - 31)
    ELSE IF Char(s, i) = "+" THEN " "
    ELSE Char(s, i)

\* unquote_plus of s[lo..hi], the range halved at each step
RECURSIVE unquote_range(_, _, _)
unquote_range(s, lo, hi) ==
    IF lo > hi THEN ""
    ELSE IF lo = hi THEN unquote_at(s, lo)
    ELSE unquote_range(s, lo, (lo + hi) \div 2) \o unquote_range(s, ((lo + hi) \div 2) + 1, hi)

\* urllib.parse.unquote after replace('+', ' '), as parse_qsl applies it to
\* names and values; escapes outside printable ASCII are left as written
unquote_plus(s) == unquote_range(s, 1, Len(s))

\* quote_plus of one character, given its code
quote_char(c, code) ==
    IF InStr(c, AlwaysSafe) THEN c
    ELSE IF c = " " THEN "+"
    ELSE "%" \o Char(HexUpper, (code \div 16) + 1) \o Char(HexUpper, (code % 16) + 1)

\* urllib.parse.quote_plus(s, safe=''), the string halved at each step
RECURSIVE quote_plus(_)
quote_plus(s) ==
    IF s = "" THEN ""
    ELSE IF Len(s) = 1 THEN quote_char(s, IndexOf(s, Ascii) + 31)
    ELSE quote_plus(Take(s, Len(s) \div 2)) \o quote_plus(Drop(s, Len(s) \div 2))

\* least positive element of a set of indices, 0 standing for "not found"
MinFound(I) == Least(I \ {0})

\* urlsplit, the end: the query is cut off at the first "?" (index q, 0 if none)
urlsplit_query(scheme, netloc, url4, fragment, q) ==
    [scheme |-> scheme, netloc |-> netloc,
     path |-> IF q = 0 THEN url4 ELSE Take(url4, q - 1),
     query |-> IF q = 0 THEN "" ELSE Drop(url4, q),
     fragment |-> fragment]

\* urlsplit: the fragment is cut off at the first "#" (index h, 0 if none)
urlsplit_fragment(scheme, netloc, url3, h) ==
    urlsplit_query(scheme, netloc, IF h = 0 THEN url3 ELSE Take(url3, h - 1),
                   IF h = 0 THEN "" ELSE Drop(url3, h),
                   Find(IF h = 0 THEN url3 ELSE Take(url3, h - 1), "?", 1))

\* urlsplit, after "//": the netloc ends at the first of "/", "?", "#" (index
\* delim, 0 if none)
urlsplit_netloc(scheme, url2, delim) ==
    urlsplit_fragment(scheme,
                      IF delim = 0 THEN Drop(url2, 2) ELSE Slice(url2, 3, delim - 1),
                      IF delim = 0 THEN "" ELSE Drop(url2, delim - 1),
                      IF delim = 0 THEN 0 ELSE Find(Drop(url2, delim - 1), "#", 1))

\* urlsplit, once the scheme is split off
urlsplit_rest(scheme, url2) ==
    IF Take(url2, 2) = "//"
    THEN urlsplit_netloc(scheme, url2,
                         MinFound({Find(url2, "/", 3), Find(url2, "?", 3), Find(url2, "#", 3)}))
    ELSE urlsplit_fragment(scheme, "", url2, Find(url2, "#", 1))

\* urlsplit: the scheme is what precedes the first ":" (index i), when it
\* starts with a letter and is made of scheme characters
urlsplit_scheme(url1, i) ==
    IF /\ i > 1
       /\ InStr(Char(url1, 1), LowerLetters \o UpperLetters)
       /\ \A k \in 1..(i - 1) : InStr(Char(url1, k), scheme_chars)
    THEN urlsplit_rest(lower(Take(url1, i - 1)), Drop(url1, i))
    ELSE urlsplit_rest("", url1)

\* urlsplit, after url.lstrip() of the leading whitespace
urlsplit_stripped(url1) == urlsplit_scheme(url1, Find(url1, ":", 1))

\* urllib.parse.urlsplit
urlsplit(url0) == urlsplit_stripped(lstrip(url0, " "))

\* _splitparams, cutting at the ";" found (index i, 0 if none)
splitparams_at(url, i) == IF i = 0 THEN <<url, "">> ELSE <<Take(url, i - 1), Drop(url, i)>>

\* _splitparams, given url.rfind('/') (0 if none)
splitparams_from(url, slash) == splitparams_at(url, Find(url, ";", IF slash # 0 THEN slash ELSE 1))

\* urllib.parse._splitparams: <<path, params>>
splitparams(url) == splitparams_from(url, RFind(url, "/"))

\* urlparse, given the SplitResult and <<path, params>>
urlparse_result(s, pp) ==
    [scheme |-> s.scheme, netloc |-> s.netloc, path |-> pp[1], params |-> pp[2],
     query |-> s.query, fragment |-> s.fragment]

\* urlparse, given the SplitResult
urlparse_split(s) ==
    urlparse_result(s, IF s.scheme \in uses_params /\ InStr(";", s.path)
                       THEN splitparams(s.path) ELSE <<s.path, "">>)

\* urllib.parse.urlparse
urlparse(url) == urlparse_split(urlsplit(url))

\* parse_qsl, one name=value piece with the index e of its first "=" (0 if
\* none): no pair for a piece without "=" or with a blank value
qsl_pair(name_value, e) ==
    IF name_value = "" \/ e = 0 \/ Drop(name_value, e) = "" THEN <<>>
    ELSE << <<unquote_plus(Take(name_value, e - 1)), unquote_plus(Drop(name_value, e))>> >>

\* urllib.parse.parse_qsl(qs, keep_blank_values=False): the <<name, value>> pairs
RECURSIVE qsl_of(_)
qsl_of(args) ==
    IF args = <<>> THEN <<>>
    ELSE qsl_pair(Head(args), Find(Head(args), "=", 1)) \o qsl_of(Tail(args))

parse_qsl(qs) == IF qs = "" THEN <<>> ELSE qsl_of(split(qs, "&"))

\* urllib.parse.parse_qs: the dict name -> list of values, as the sequence of
\* its items in insertion order (the order of each name's first occurrence)
RECURSIVE qs_dict(_, _)
qs_dict(pairs, acc) ==
    IF pairs = <<>> THEN acc
    ELSE LET name == Head(pairs)[1]
             value == Head(pairs)[2]
             known == \E i \in 1..Len(acc) : acc[i].k = name
         IN  qs_dict(Tail(pairs),
                     IF known
                     THEN [i \in 1..Len(acc) |->
                             IF acc[i].k = name THEN [k |-> name, v |-> Append(acc[i].v, value)] ELSE acc[i]]
                     ELSE Append(acc, [k |-> name, v |-> <<value>>]))

parse_qs(qs) == qs_dict(parse_qsl(qs), <<>>)

\* the values of one dict item, each serialised as name=value
RECURSIVE encode_values(_, _)
encode_values(name, values) ==
    IF values = <<>> THEN <<>>
    ELSE <<quote_plus(name) \o "=" \o quote_plus(Head(values))>> \o encode_values(name, Tail(values))

RECURSIVE encode_items(_)
encode_items(items) ==
    IF items = <<>> THEN <<>>
    ELSE encode_values(Head(items).k, Head(items).v) \o encode_items(Tail(items))

\* urllib.parse.urlencode(d, doseq=True)
urlencode(items) == join(encode_items(items), "&")

\* urlunsplit, given the path with its params
urlunsplit(scheme, netloc, url1, query, fragment) ==
    (IF scheme # "" THEN scheme \o ":" ELSE "")
    \o (IF netloc # "" \/ (scheme # "" /\ scheme \in uses_netloc /\ Take(url1, 2) # "//")
        THEN "//" \o netloc \o (IF url1 # "" /\ Take(url1, 1) # "/" THEN "/" ELSE "") \o url1
        ELSE url1)
    \o (IF query # "" THEN "?" \o query ELSE "")
    \o (IF fragment # "" THEN "#" \o fragment ELSE "")

\* urllib.parse.urlunparse((scheme, netloc, path, params, query, fragment))
urlunparse(scheme, netloc, path, params, query, fragment) ==
    urlunsplit(scheme, netloc, IF params # "" THEN path \o ";" \o params ELSE path, query, fragment)

(***************************************************************************)
(* src/app/utils/hashing.py                                                *)
(***************************************************************************)

_TRACKING_PARAMS ==
    {"utm_source", "utm_medium", "utm_campaign", "utm_term", "utm_content",
     "ref", "referrer", "source", "gh_src", "lever-origin", "lever-source",
     "ashby_source", "ems", "sid", "cid", "gclid", "fbclid", "msclkid"}

_REDIRECT_PARAMS == <<"url", "link", "target", "redirect", "dest", "destination">>

\* qs[param][0] for the dict items qs
qs_first(qs, param) ==
    LET i == CHOOSE j \in 1..Len(qs) : qs[j].k = param
    IN  qs[i].v[1]

qs_has(qs, param) == \E i \in 1..Len(qs) : qs[i].k = param

\* the loop of extract_redirect_url from the n-th redirect parameter on
RECURSIVE redirect_from(_, _, _)
redirect_from(url, qs, n) ==
    IF n > Len(_REDIRECT_PARAMS) THEN url
    ELSE IF qs_has(qs, _REDIRECT_PARAMS[n]) /\ StartsWith(qs_first(qs, _REDIRECT_PARAMS[n]), "http")
         THEN qs_first(qs, _REDIRECT_PARAMS[n])
    ELSE redirect_from(url, qs, n + 1)

extract_redirect_url(url) == redirect_from(url, parse_qs(urlparse(url).query), 1)

\* the dict comprehension of canonicalise_url: items whose lowercased name is
\* not a tracking parameter, order kept
clean_items(qs) == SelectSeq(qs, LAMBDA it : lower(it.k) \notin _TRACKING_PARAMS)

\* parsed.path.rstrip("/") or "/"
path_or_root(stripped) == IF stripped = "" THEN "/" ELSE stripped

\* canonicalise_url, lines 50-67, given parsed = urlparse(url)
canonical(parsed) ==
    urlunparse(lower(parsed.scheme), lower(parsed.netloc), path_or_root(rstrip(parsed.path, "/")),
               "", urlencode(clean_items(parse_qs(parsed.query))), "")

\* canonicalise_url: line 48, line 49 and lines 50-67, each step on the value
\* the step before it returned
canonicalise_url(url0) ==
    CHOOSE result \in
        {canonical(parsed) :
            parsed \in {urlparse(url) :
                url \in {extract_redirect_url(stripped) : stripped \in {strip(url0)}}}} : TRUE

\* hashlib.sha256(s.encode()).hexdigest(): the digest of s, written as the
\* tagged preimage (SHA-256 is taken to be collision-free on the URLs modelled)
sha256_hexdigest(s) == "sha256:" \o s

url_hash(url) == sha256_hexdigest(canonicalise_url(url))

\* the tests of detect_ats_from_url in the order of the code: the tag
\* returned and the substrings looked for
AtsPatterns ==
    <<[tag |-> "ashby", patterns |-> {"ashbyhq.com", "jobs.ashby"}],
      [tag |-> "greenhouse", patterns |-> {"greenhouse.io", "grnh.se", "gh_jid="}],
      [tag |-> "lever", patterns |-> {"lever.co"}],
      [tag |-> "workday", patterns |-> {"myworkdayjobs.com", "workday.com"}],
      [tag |-> "smartrecruiters", patterns |-> {"smartrecruiters.com"}],
      [tag |-> "icims", patterns |-> {"icims.com", "icims=1"}],
      [tag |-> "taleo", patterns |-> {"taleo.net"}],
      [tag |-> "workable", patterns |-> {"workable.com"}],
      [tag |-> "breezy", patterns |-> {"breezy.hr"}],
      [tag |-> "simplify", patterns |-> {"simplify.jobs"}]>>

\* the tests, by position, that url_lower passes
ats_tests_passed(url_lower) ==
    {k \in 1..Len(AtsPatterns) : \E pattern \in AtsPatterns[k].patterns : Contains(pattern, url_lower)}

\* variant of ats_of: the tests are made in the opposite order
ats_of_last(url_lower) ==
    IF ats_tests_passed(url_lower) = {} THEN "unknown"
    ELSE AtsPatterns[Greatest(ats_tests_passed(url_lower))].tag

\* the loop over the pattern table of detect_ats_from_url, given url.lower()
ats_of(url_lower) ==
    IF Contains("ashbyhq.com", url_lower) \/ Contains("jobs.ashby", url_lower) THEN "ashby"
    ELSE IF Contains("greenhouse.io", url_lower) \/ Contains("grnh.se", url_lower)
            \/ Contains("gh_jid=", url_lower) THEN "greenhouse"
    ELSE IF Contains("lever.co", url_lower) THEN "lever"
    ELSE IF Contains("myworkdayjobs.com", url_lower) \/ Contains("workday.com", url_lower) THEN "workday"
    ELSE IF Contains("smartrecruiters.com", url_lower) THEN "smartrecruiters"
    ELSE IF Contains("icims.com", url_lower) \/ Contains("icims=1", url_lower) THEN "icims"
    ELSE IF Contains("taleo.net", url_lower) THEN "taleo"
    ELSE IF Contains("workable.com", url_lower) THEN "workable"
    ELSE IF Contains("breezy.hr", url_lower) THEN "breezy"
    ELSE IF Contains("simplify.jobs", url_lower) THEN "simplify"
    ELSE "unknown"

detect_ats_from_url(url) == ats_of(lower(url))

(***************************************************************************)
(* src/app/adapters: the registry and each adapter's can_handle            *)
(***************************************************************************)

\* _ASHBY_DOMAINS.search(url)
ashby_can_handle(url) == Contains("ashbyhq.com", lower(url)) \/ Contains("ashby.com", lower(url))

\* _GH_DOMAINS.search(url)
greenhouse_can_handle(url) == Contains("greenhouse.io", lower(url)) \/ Contains("grnh.se", lower(url))

\* _LEVER_DOMAIN.search(url)
lever_can_handle(url) == Contains("jobs.lever.co", lower(url))

\* _WORKDAY_DOMAIN.search(url): myworkdayjobs.com, or workday.com/<segment>/hiring
workday_can_handle(url) ==
    LET u == lower(url)
        pre == "workday.com/"
    IN  \/ Contains("myworkdayjobs.com", u)
        \/ \E i \in 1..Len(u) :
              /\ Slice(u, i, i + Len(pre) - 1) = pre
              /\ \E j \in (i + Len(pre) + 1)..Len(u) :
                    /\ Slice(u, j, j + 6) = "/hiring"
                    /\ ~InStr("/", Slice(u, i + Len(pre), j - 1))

\* get_adapter(url): the ats_type of the first adapter of _REGISTRY that can
\* handle the url, "" standing for None
get_adapter(url) ==
    IF ashby_can_handle(url) THEN "ashby"
    ELSE IF greenhouse_can_handle(url) THEN "greenhouse"
    ELSE IF lever_can_handle(url) THEN "lever"
    ELSE IF workday_can_handle(url) THEN "workday"
    ELSE ""

(***************************************************************************)
(* src/app/utils/config.py, src/app/utils/filter.py                        *)
(*                                                                         *)
(* Scores are counted in thousandths: every weight of the scorer is a      *)
(* multiple of 0.001 and round(score, 3) yields the float nearest to the   *)
(* exact decimal sum, so 550 stands for the float 0.55.                    *)
(* An Optional[str] is <<>> for None and <<s>> for the string s.           *)
(***************************************************************************)

None == <<>>

Some(s) == <<s>>

\* (o or "")
OrEmpty(o) == IF o = None THEN "" ELSE o[1]

Min(a, b) == IF a <= b THEN a ELSE b

\* FilterConfig()
DefaultFilterConfig ==
    [min_score |-> 300,
     title_keywords |-> <<"intern", "internship", "swe", "software engineer",
                          "backend", "platform", "infra", "infrastructure",
                          "data", "distributed", "database", "systems">>,
     preferred_ats |-> <<"ashby", "greenhouse", "lever">>,
     preferred_locations |-> <<>>,
     excluded_locations |-> <<>>]

\* variant of _ATS_BOOST: the preferred systems cost points
_ATS_BOOST_penalty == [ashby |-> 0 - 200, greenhouse |-> 0 - 100, lever |-> 0 - 100]

\* variant of _ATS_BOOST: every preferred system is worth 0.10
_ATS_BOOST_flat == [ashby |-> 100, greenhouse |-> 100, lever |-> 100]

\* _ATS_BOOST, in thousandths
_ATS_BOOST == [ashby |-> 200, greenhouse |-> 100, lever |-> 100]

\* the keywords of cfg.title_keywords found in the title, in order
matched_keywords(title, cfg) ==
    SelectSeq(cfg.title_keywords, LAMBDA kw : Contains(lower(kw), lower(title)))

\* variant of keyword_score: each further keyword costs 0.05
keyword_score_falling(n) == 350 - 50 * (n - 1)

\* variant of keyword_score: 0.35 however many keywords match
keyword_score_flat(n) == 350

\* min(0.50, 0.35 + 0.05 * (n - 1))
keyword_score(n) == Min(500, 350 + 50 * (n - 1))

\* the first excluded location found in the location, <<>> if none
RECURSIVE first_excluded(_, _)
first_excluded(excluded, location_lower) ==
    IF excluded = <<>> THEN <<>>
    ELSE IF Contains(lower(Head(excluded)), location_lower) THEN <<Head(excluded)>>
    ELSE first_excluded(Tail(excluded), location_lower)

\* the first preferred location for which the loop of lines 79-83 breaks
RECURSIVE first_preferred(_, _)
first_preferred(preferred, location_lower) ==
    IF preferred = <<>> THEN <<>>
    ELSE IF Contains(lower(Head(preferred)), location_lower) \/ Contains("remote", location_lower)
         THEN <<Head(preferred)>>
    ELSE first_preferred(Tail(preferred), location_lower)

\* f"{boost:.0%}" for a boost in thousandths
percent(boost) == ToString(boost \div 10) \o "%"

\* variant of score_job_result: the threshold itself does not pass
score_job_result_strict(score, reasons, cfg) ==
    [score |-> Min(1000, score),
     reason |-> join(reasons, "; "),
     should_queue |-> Min(1000, score) > cfg.min_score]

\* score_job, lines 90-98: the cap, the threshold and the result
score_job_result(score, reasons, cfg) ==
    [score |-> Min(1000, score),
     reason |-> join(reasons, "; "),
     should_queue |-> Min(1000, score) >= cfg.min_score]

\* variant of score_job_bonus: with preferred locations configured, any
\* location gets the bonus
score_job_bonus_any(score, reasons, location_lower, pref, cfg) ==
    IF cfg.preferred_locations # <<>>
    THEN score_job_result(score + 50, Append(reasons, "preferred location"), cfg)
    ELSE IF Contains("remote", location_lower)
         THEN score_job_result(score + 50, Append(reasons, "remote"), cfg)
         ELSE score_job_result(score, reasons, cfg)

\* score_job, lines 78-88: the location bonus; pref is the preferred location
\* the loop broke on, <<>> if none
score_job_bonus(score, reasons, location_lower, pref, cfg) ==
    IF cfg.preferred_locations # <<>>
    THEN IF pref # <<>>
         THEN score_job_result(score + 50, Append(reasons, "preferred location (" \o pref[1] \o ")"), cfg)
         ELSE score_job_result(score, reasons, cfg)
    ELSE IF Contains("remote", location_lower)
         THEN score_job_result(score + 50, Append(reasons, "remote"), cfg)
         ELSE score_job_result(score, reasons, cfg)

\* variant of score_job_location: the excluded locations are not looked at
score_job_location_open(score, reasons, location_lower, excl, cfg) ==
    score_job_bonus(score, reasons, location_lower,
                    first_preferred(cfg.preferred_locations, location_lower), cfg)

\* score_job, lines 66-76: an excluded location ends the scoring with 0; excl
\* is the first excluded location found, <<>> if none
score_job_location(score, reasons, location_lower, excl, cfg) ==
    IF excl # <<>>
    THEN [score |-> 0,
          reason |-> join(Append(reasons, "excluded location: " \o excl[1]), "; "),
          should_queue |-> FALSE]
    ELSE score_job_bonus(score, reasons, location_lower,
                         first_preferred(cfg.preferred_locations, location_lower), cfg)

\* score_job, lines 60-64: the ATS preference
score_job_ats(score, reasons, location_lower, ats, cfg) ==
    IF ats \in DOMAIN _ATS_BOOST
    THEN score_job_location(score + _ATS_BOOST[ats],
                            Append(reasons, "preferred ATS (" \o ats \o " +"
                                            \o percent(_ATS_BOOST[ats]) \o ")"),
                            location_lower,
                            first_excluded(cfg.excluded_locations, location_lower), cfg)
    ELSE score_job_location(score, reasons, location_lower,
                            first_excluded(cfg.excluded_locations, location_lower), cfg)

\* score_job, lines 46-58: the title keywords matched
score_job_keywords(matched, location_lower, ats, cfg) ==
    IF matched # <<>>
    THEN score_job_ats(keyword_score(Len(matched)),
                       <<"title matches: " \o join(SubSeq(matched, 1, Min(3, Len(matched))), ", ")>>,
                       location_lower, ats, cfg)
    ELSE score_job_ats(0, <<"no title keyword match">>, location_lower, ats, cfg)

\* (ats_type or "unknown")
OrUnknown(o) == IF OrEmpty(o) = "" THEN "unknown" ELSE OrEmpty(o)

score_job(title, company, location, ats_type, cfg) ==
    score_job_keywords(matched_keywords(title, cfg), lower(OrEmpty(location)),
                       lower(OrUnknown(ats_type)), cfg)

(***************************************************************************)
(* src/app/gmail/parser.py, src/app/sources/github_readme.py: from raw     *)
(* candidates to ParsedJob values                                          *)
(***************************************************************************)

\* parse_email_html, the loop over the candidates (company, title, url,
\* location) that _extract_candidates returned
RECURSIVE parse_candidates(_, _, _)

\* variant of parse_hashed: the hashes already seen are not looked at
parse_hashed_unseen(candidates, canon, h, seen_hashes, source_email_id) ==
    IF Head(candidates).url = "" \/ Head(candidates).title = ""
    THEN parse_candidates(Tail(candidates), seen_hashes, source_email_id)
    ELSE <<[company |-> Head(candidates).company, title |-> Head(candidates).title,
            url |-> canon, url_hash |-> h,
            ats_type |-> detect_ats_from_url(canon), location |-> Head(candidates).location,
            source_email_id |-> source_email_id]>>
         \o parse_candidates(Tail(candidates), seen_hashes \cup {h}, source_email_id)

\* lines 78-96 for the first candidate, given h = url_hash(canon)
parse_hashed(candidates, canon, h, seen_hashes, source_email_id) ==
    IF Head(candidates).url = "" \/ Head(candidates).title = "" \/ h \in seen_hashes
    THEN parse_candidates(Tail(candidates), seen_hashes, source_email_id)
    ELSE <<[company |-> Head(candidates).company, title |-> Head(candidates).title,
            url |-> canon, url_hash |-> h,
            ats_type |-> detect_ats_from_url(canon), location |-> Head(candidates).location,
            source_email_id |-> source_email_id]>>
         \o parse_candidates(Tail(candidates), seen_hashes \cup {h}, source_email_id)

\* lines 78-96 for the first candidate, given canon = canonicalise_url(url)
parse_canon(candidates, canon, seen_hashes, source_email_id) ==
    parse_hashed(candidates, canon, url_hash(canon), seen_hashes, source_email_id)

parse_candidates(candidates, seen_hashes, source_email_id) ==
    IF candidates = <<>> THEN <<>>
    ELSE parse_canon(candidates, canonicalise_url(Head(candidates).url), seen_hashes, source_email_id)

_SKIPPED_ATS == {"workday", "taleo"}

\* fetch_github_jobs, the loop over the table rows once the row's company,
\* role, location and apply url (<<>> when _get_apply_url found none) are read
RECURSIVE github_jobs(_, _, _)

\* lines 139-171 for the first row r, given ats, canon and h
github_row(rows, r, ats, canon, h, seen_hashes, filter_cfg) ==
    IF /\ r.company # ""
       /\ r.url # None
       /\ r.url # Some("")
       /\ r.title # ""
       /\ \E i \in 1..Len(filter_cfg.title_keywords) :
             Contains(lower(filter_cfg.title_keywords[i]), lower(r.title))
       /\ ats \notin _SKIPPED_ATS
       /\ h \notin seen_hashes
    THEN <<[company |-> r.company, title |-> r.title, url |-> canon, url_hash |-> h,
            ats_type |-> ats, location |-> r.location, source_email_id |-> None]>>
         \o github_jobs(Tail(rows), seen_hashes \cup {h}, filter_cfg)
    ELSE github_jobs(Tail(rows), seen_hashes, filter_cfg)

\* lines 148-155 for the first row, given canon = canonicalise_url(url)
github_canon(rows, url, canon, seen_hashes, filter_cfg) ==
    github_row(rows, Head(rows), detect_ats_from_url(url), canon, url_hash(canon),
               seen_hashes, filter_cfg)

\* lines 113-155 for the first row, given its apply url ("" when there is none)
github_url(rows, url, seen_hashes, filter_cfg) ==
    github_canon(rows, url, canonicalise_url(url), seen_hashes, filter_cfg)

github_jobs(rows, seen_hashes, filter_cfg) ==
    IF rows = <<>> THEN <<>>
    ELSE github_url(rows, OrEmpty(Head(rows).url), seen_hashes, filter_cfg)

\* the lock glyph U+1F512 of a closed role, written in ASCII
LockGlyph == "{lock}"

\* re.compile(r"^Apply$", re.I).search(alt): $ matches at the end and before
\* a newline that ends the string
apply_alt_search(alt) == lower(alt) \in {"apply", "apply\n"}

\* a.find("img", alt=...) is not None, for the alt texts of the images in a
img_apply(a) == \E i \in 1..Len(a.imgs) : apply_alt_search(a.imgs[i])

\* _get_apply_url: the cell has its text and its anchors in document order,
\* each with its href (<<>> when it has none) and the alts of its images
_get_apply_url(application_td) ==
    IF Contains(LockGlyph, application_td.text) THEN None
    ELSE IF \E k \in 1..Len(application_td.anchors) :
               application_td.anchors[k].href # None /\ img_apply(application_td.anchors[k])
    THEN application_td.anchors[
             Least({k \in 1..Len(application_td.anchors) :
                       application_td.anchors[k].href # None /\ img_apply(application_td.anchors[k])})].href
    ELSE None

\* lines 118-138: what a table row's four cells give
feed_row(row) ==
    [company |-> row.company, title |-> row.title, url |-> _get_apply_url(row.application_td),
     location |-> row.location]

\* fetch_github_jobs on the rows of the table
fetch_github_jobs(table, filter_cfg) ==
    github_jobs([i \in 1..Len(table) |-> feed_row(table[i])], {}, filter_cfg)

(***************************************************************************)
(* src/app/models/schema.py: the tables, and the session as the code uses  *)
(* it.  A row's id is its position in its table (rows are never deleted).  *)
(***************************************************************************)

JobStatus == {"discovered", "queued", "filtered_out", "skipped"}

ApplicationStatus == {"queued", "started", "filled", "needs_review", "submitted", "skipped", "error"}

RunStatus == {"running", "completed", "interrupted"}

LLMRecommendation == {"RECOMMEND_SUBMIT", "RECOMMEND_SKIP", "NA"}

\* variant of JobPost: the row is created already queued
JobPost_queued(job, source_email_db_id) ==
    [url_hash |-> job.url_hash, company |-> job.company, title |-> job.title,
     location |-> job.location, url |-> job.url, ats_type |-> job.ats_type,
     fit_score |-> 0, fit_reason |-> "",
     source_email_id |-> source_email_db_id, status |-> "queued"]

\* JobPost(...) as _store_jobs constructs it, the other fields at their defaults
JobPost(job, source_email_db_id) ==
    [url_hash |-> job.url_hash, company |-> job.company, title |-> job.title,
     location |-> job.location, url |-> job.url, ats_type |-> job.ats_type,
     fit_score |-> 0, fit_reason |-> "",
     source_email_id |-> source_email_db_id, status |-> "discovered"]

\* Application(...) as queue constructs it, the other fields at their defaults
Application(job_post_id, ats_type) ==
    [job_post_id |-> job_post_id, status |-> "queued", ats_type |-> ats_type,
     llm_recommendation |-> None, error_message |-> None]

\* url_hash: Field(unique=True): what a flush of the rows would accept
url_hash_unique(rows) ==
    \A i, j \in 1..Len(rows) : rows[i].url_hash = rows[j].url_hash => i = j

(***************************************************************************)
(* src/app/cli/main.py                                                     *)
(***************************************************************************)

\* variant of existing: the lookup of lines 102-105 finds nothing, so that
\* every parsed job is added
existing_never(rows, h) == FALSE

\* session.exec(select(JobPost).where(JobPost.url_hash == h)).first() is not
\* None; the session autoflushes, so rows added earlier in the call are seen
existing(rows, h) == \E i \in 1..Len(rows) : rows[i].url_hash = h

\* _store_jobs: the session's job_posts rows after the call, with the counts
RECURSIVE _store_jobs(_, _, _, _)
_store_jobs(rows, jobs, source_email_db_id, dry_run) ==
    IF jobs = <<>> THEN [rows |-> rows, total |-> 0, new_count |-> 0]
    ELSE LET job == Head(jobs)
             dup == existing(rows, job.url_hash)
             rest == _store_jobs(IF dup \/ dry_run THEN rows
                                 ELSE Append(rows, JobPost(job, source_email_db_id)),
                                 Tail(jobs), source_email_db_id, dry_run)
         IN  [rows |-> rest.rows,
              total |-> rest.total + 1,
              new_count |-> rest.new_count + (IF dup THEN 0 ELSE 1)]


(***************************************************************************)
(* Bounds and inputs                                                       *)
(***************************************************************************)

\* most candidates (or table rows) in one fetched document
MaxBatch == 2

\* most emails the mailbox ever holds
MaxEmails == 1

\* the candidates a document can carry: (company, title, url, location)
Pool ==
    <<[company |-> "Stripe", title |-> "Software Engineer Intern",
       url |-> "https://jobs.ashbyhq.com/stripe/abc?utm_source=swelist", location |-> None],
      [company |-> "Stripe", title |-> "Software Engineer Intern",
       url |-> "HTTPS://Jobs.AshbyHQ.com/stripe/abc/", location |-> None],
      [company |-> "Initech", title |-> "SWE Intern",
       url |-> "https://initech.wd1.myworkdayjobs.com/ext/job/7", location |-> Some("Austin, TX")],
      [company |-> "Globex", title |-> "Data Analyst",
       url |-> "https://globex.com/careers/9/", location |-> Some("Remote")]>>

\* the gmail ids the mailbox can hold
GmailId(i) == "m" \o ToString(i)

GmailIds == {GmailId(i) : i \in 1..MaxEmails}

\* the thresholds `queue --min-score` is called with (thousandths); <<>> when
\* the option is absent
MinScoreOptions == {None, Some(600)}

\* what the user types at the submit prompt
SubmitAnswers == {"YES", "yes", " Yes ", "y", "no", "", "YES!"}

RECURSIVE SeqsUpTo(_, _)
SeqsUpTo(S, n) ==
    IF n = 0 THEN {<<>>}
    ELSE LET shorter == SeqsUpTo(S, n - 1)
         IN  shorter \cup {Append(q, x) : q \in shorter, x \in S}

\* the documents: lists of at most MaxBatch candidates
Documents == SeqsUpTo({Pool[i] : i \in 1..Len(Pool)}, MaxBatch)

\* fetch_github_jobs(cfg.filter) for each README the feed can serve
GithubFetches ==
    {github_jobs([i \in 1..Len(d) |-> [d[i] EXCEPT !.url = Some(d[i].url)]], {}, DefaultFilterConfig)
        : d \in Documents}

\* the html body of the i-th email of the mailbox: MaxBatch candidates
MailDocument(i) == [k \in 1..MaxBatch |-> Pool[((i + k) % Len(Pool)) + 1]]

\* the mailbox: RawEmail i with its gmail_id, already parsed:
\* parse_email_html(raw.html_body, source_email_id=raw.gmail_id)
Mailbox ==
    [i \in 1..MaxEmails |->
        [gmail_id |-> GmailId(i),
         jobs |-> parse_candidates(MailDocument(i), {}, Some(GmailId(i)))]]

\* what fetch_digest_emails can return: emails of the mailbox, in its order
RawEmailLists ==
    {SelectSeq(Mailbox, LAMBDA raw : raw.gmail_id \in G) : G \in SUBSET GmailIds}

\* every ParsedJob a fetch can deliver
AllJobs ==
    UNION ({{f[i] : i \in 1..Len(f)} : f \in GithubFetches}
           \cup {{Mailbox[m].jobs[i] : i \in 1..Len(Mailbox[m].jobs)} : m \in 1..MaxEmails})

\* the thresholds a queue command can run under
Thresholds == {IF m = None THEN DefaultFilterConfig.min_score ELSE m[1] : m \in MinScoreOptions}

\* score_job(title, company, location, ats_type, cfg) for every job that can be
\* stored and every threshold, computed once
ScoreTable ==
    {[title |-> j.title, company |-> j.company, location |-> j.location, ats_type |-> j.ats_type,
      threshold |-> t,
      result |-> score_job(j.title, j.company, j.location, Some(j.ats_type),
                           [DefaultFilterConfig EXCEPT !.min_score = t])]
        : j \in AllJobs, t \in Thresholds}

\* get_adapter(url) for every url that can be stored, computed once
AdapterTable == {<<u, get_adapter(u)>> : u \in {j.url : j \in AllJobs}}

(***************************************************************************)
(* State                                                                   *)
(***************************************************************************)

VARIABLES
    job_posts,      \* table job_posts, committed rows in insertion order
    applications,   \* table applications
    emails,         \* table emails: the gmail_id of each row
    pc,             \* where the running command stands; "idle" between commands
    op,             \* what the last step reported: "fetch_dup", "fetch_dry", "reset", or ""
    last_error,     \* the exception that ended the last command, "" if none
    min_score,      \* cfg.filter.min_score of the queue command
    yes,            \* option --yes of the queue command
    to_queue,       \* queue: ids of the jobs that passed the threshold
    filtered_out,   \* queue: ids of the jobs that did not
    queued_apps,    \* run: ids of the applications selected at the start
    cur,            \* run: index in queued_apps of the application at hand
    llm_on,         \* run: cfg.llm.enabled and not skip_llm
    calls,          \* run: adapter methods called for the application at hand
    answer,         \* run: what the user typed at the submit prompt
    run_status,     \* ApplicationRun.status of the last run, "" before any
    url_a,          \* SpecUrl: the URL at hand
    url_b,          \* SpecUrl: a second spelling of the same posting
    canons,         \* SpecUrl: canonicalise_url applied once, then twice
    hashes,         \* SpecUrl: the url_hash values computed
    ingested,       \* SpecUrl: how many of the two spellings were fetched
    extraction,     \* SpecParse: a document, its candidates and the jobs emitted
    scoring,        \* SpecScore: the arguments of score_job and its results
    writers,        \* SpecWriters: the sessions of two ingestion processes
    classified,     \* SpecAts: a url and the ATS tag detected for it
    resolver,       \* SpecAnswers: the QuestionAnswer rows and the prompts shown
    evaluation      \* SpecLLM: two runs of one application past the review step

vars == <<job_posts, applications, emails, pc, op, last_error, min_score, yes,
          to_queue, filtered_out, queued_apps, cur, llm_on, calls, answer, run_status,
          url_a, url_b, canons, hashes, ingested, extraction, scoring, writers, classified, resolver, evaluation>>

queue_vars == <<min_score, yes, to_queue, filtered_out>>

run_vars == <<queued_apps, cur, llm_on, calls, answer, run_status>>

url_vars == <<url_a, url_b, canons, hashes, ingested>>

side_vars == <<extraction, scoring, writers, classified, resolver, evaluation>>

\* nothing extracted, nothing scored, no second process
NoExtraction ==
    [stage |-> "none", document |-> <<>>, strategies |-> <<>>, candidates |-> <<>>, jobs |-> <<>>,
     readme |-> <<>>, readme_jobs |-> <<>>]

NoScoring ==
    [stage |-> "none", titles |-> [a |-> "", b |-> ""], location |-> <<>>, ats_type |-> <<>>,
     cfg |-> <<>>, results |-> [a |-> <<>>, b |-> <<>>]]

NoWriters == [stage |-> "none", lock |-> 0, procs |-> <<>>]

NoClassified == [stage |-> "none", url |-> "", ats |-> ""]

NoResolver == [stage |-> "none", rows |-> <<>>, prompts |-> <<>>, returned |-> <<>>]

NoEvaluation == [stage |-> "none", runs |-> <<>>]

InitSide ==
    /\ extraction = NoExtraction
    /\ scoring = NoScoring
    /\ writers = NoWriters
    /\ classified = NoClassified
    /\ resolver = NoResolver
    /\ evaluation = NoEvaluation

\* the store after init_db and no command at hand
InitStore ==
    /\ job_posts = <<>>
    /\ applications = <<>>
    /\ emails = <<>>
    /\ pc = "idle"
    /\ op = ""
    /\ last_error = ""
    /\ min_score = DefaultFilterConfig.min_score
    /\ yes = FALSE
    /\ to_queue = <<>>
    /\ filtered_out = <<>>
    /\ queued_apps = <<>>
    /\ cur = 0
    /\ llm_on = FALSE
    /\ calls = <<>>
    /\ answer = None
    /\ run_status = ""

Init ==
    /\ InitStore
    /\ url_a = ""
    /\ url_b = ""
    /\ canons = [a |-> <<>>, b |-> <<>>]
    /\ hashes = <<>>
    /\ ingested = 0
    /\ InitSide

(***************************************************************************)
(* fetch                                                                   *)
(***************************************************************************)

\* session.commit(): the flush fails with IntegrityError when two rows share
\* a url_hash, and the command ends there with nothing written
Commit(rows) ==
    IF url_hash_unique(rows)
    THEN job_posts' = rows /\ last_error' = ""
    ELSE job_posts' = job_posts /\ last_error' = "IntegrityError"

\* whether the fetch stored jobs and printed "Duplicate" for some (line 107),
\* or printed "(dry-run)" for the jobs it would have stored (lines 109-111)
fetch_op(total, new_count, dry_run) ==
    IF ~dry_run /\ new_count < total THEN "fetch_dup"
    ELSE IF dry_run /\ new_count > 0 THEN "fetch_dry"
    ELSE ""

\* fetch --source github, lines 281-296: store the jobs and commit
fetch_github(jobs, dry_run) ==
    /\ pc = "idle"
    /\ LET r == _store_jobs(job_posts, jobs, None, dry_run)
       IN  /\ IF dry_run THEN job_posts' = job_posts /\ last_error' = "" ELSE Commit(r.rows)
           /\ op' = fetch_op(r.total, r.new_count, dry_run)
    /\ UNCHANGED <<applications, emails, pc, queue_vars, run_vars>>

FetchGithub(jobs, dry_run) ==
    /\ fetch_github(jobs, dry_run)
    /\ UNCHANGED <<url_vars, side_vars>>

\* variant of email_record: the Email row is stored on a dry run as well
email_record_always(mails, raw, dry_run) == Append(mails, raw.gmail_id)

\* lines 322-334: the Email row of a raw email is added and committed, unless
\* the fetch is a dry run
email_record(mails, raw, dry_run) == IF dry_run THEN mails ELSE Append(mails, raw.gmail_id)

\* fetch --source gmail, the loop over raw_emails: the session's rows and the
\* counts after the emails from the n-th on are processed
RECURSIVE process_emails(_, _, _, _, _)
process_emails(rows, mails, raw_emails, n, dry_run) ==
    IF n > Len(raw_emails) THEN [rows |-> rows, mails |-> mails, total |-> 0, new_count |-> 0]
    ELSE LET raw == raw_emails[n]
             mails1 == email_record(mails, raw, dry_run)
             source_db_id == IF dry_run THEN None ELSE Some(Len(mails1))
             r == _store_jobs(rows, raw.jobs, source_db_id, dry_run)
             rest == process_emails(r.rows, mails1, raw_emails, n + 1, dry_run)
         IN  [rows |-> rest.rows, mails |-> rest.mails,
              total |-> Len(raw.jobs) + rest.total,
              new_count |-> r.new_count + rest.new_count]

FetchGmail(raw_emails, dry_run) ==
    /\ pc = "idle"
    /\ \A i \in 1..Len(raw_emails) : \A k \in 1..Len(emails) : raw_emails[i].gmail_id # emails[k]
    /\ LET r == process_emails(job_posts, emails, raw_emails, 1, dry_run)
       IN  /\ IF dry_run THEN job_posts' = job_posts /\ last_error' = "" ELSE Commit(r.rows)
           /\ emails' = r.mails
           /\ op' = fetch_op(r.total, r.new_count, dry_run)
    /\ UNCHANGED <<applications, pc, queue_vars, run_vars>>
    /\ UNCHANGED <<url_vars, side_vars>>

(***************************************************************************)
(* queue                                                                   *)
(***************************************************************************)

\* ids of the rows of a table that satisfy Test, in table order
Select(rows, Test(_)) == SelectSeq([i \in 1..Len(rows) |-> i], LAMBDA i : Test(rows[i]))

\* variant of discovered_jobs: the queued jobs are scored again as well
discovered_jobs_and_queued(rows) == Select(rows, LAMBDA jp : jp.status \in {"discovered", "queued"})

\* variant of discovered_jobs: the filtered-out jobs are scored again as well
discovered_jobs_and_filtered(rows) ==
    Select(rows, LAMBDA jp : jp.status \in {"discovered", "filtered_out"})

\* select(JobPost).where(JobPost.status == JobStatus.discovered)
discovered_jobs(rows) == Select(rows, LAMBDA jp : jp.status = "discovered")

InSeq(x, q) == \E i \in 1..Len(q) : q[i] = x

\* score_job(...) of lines 446-452 for a stored row, under the threshold of
\* this queue command
result_for(jp, threshold) ==
    (CHOOSE e \in ScoreTable :
        /\ e.title = jp.title /\ e.company = jp.company /\ e.location = jp.location
        /\ e.ats_type = jp.ats_type /\ e.threshold = threshold).result

\* queue, lines 431-461: score every discovered job and commit the scores
QueueScore(min_score_opt, y) ==
    /\ pc = "idle"
    /\ LET threshold == IF min_score_opt = None THEN DefaultFilterConfig.min_score ELSE min_score_opt[1]
           discovered == discovered_jobs(job_posts)
       IN  IF discovered = <<>>
           THEN UNCHANGED <<job_posts, pc, queue_vars>>
           ELSE /\ min_score' = threshold
                /\ yes' = y
                /\ job_posts' =
                     [i \in 1..Len(job_posts) |->
                         IF InSeq(i, discovered)
                         THEN [job_posts[i] EXCEPT
                                 !.fit_score = result_for(job_posts[i], threshold).score,
                                 !.fit_reason = result_for(job_posts[i], threshold).reason]
                         ELSE job_posts[i]]
                /\ to_queue' = SelectSeq(discovered,
                                 LAMBDA i : result_for(job_posts[i], threshold).should_queue)
                /\ filtered_out' = SelectSeq(discovered,
                                 LAMBDA i : ~result_for(job_posts[i], threshold).should_queue)
                /\ pc' = "queue_scored"
    /\ op' = ""
    /\ last_error' = ""
    /\ UNCHANGED <<applications, emails, run_vars>>
    /\ UNCHANGED <<url_vars, side_vars>>

ActiveStatuses == {"queued", "started", "filled", "needs_review"}

\* the existing_app query of line 497 is not None
has_active_app(apps, job_post_id) ==
    \E a \in 1..Len(apps) : apps[a].job_post_id = job_post_id /\ apps[a].status \in ActiveStatuses

\* the loop of lines 494-514 over the ids still to queue
RECURSIVE queue_apps(_, _, _)
queue_apps(apps, rows, ids) ==
    IF ids = <<>> THEN apps
    ELSE queue_apps(IF has_active_app(apps, Head(ids)) THEN apps
                    ELSE Append(apps, Application(Head(ids), rows[Head(ids)].ats_type)),
                    rows, Tail(ids))

\* queue, lines 463-520: the review tables, the confirmation, the statuses
QueueFinish(confirmed) ==
    /\ pc = "queue_scored"
    /\ IF to_queue = <<>> \/ (~yes /\ ~confirmed)
       THEN UNCHANGED <<job_posts, applications>>
       ELSE /\ job_posts' =
                 [i \in 1..Len(job_posts) |->
                     IF InSeq(i, to_queue) THEN [job_posts[i] EXCEPT !.status = "queued"]
                     ELSE IF InSeq(i, filtered_out) THEN [job_posts[i] EXCEPT !.status = "filtered_out"]
                     ELSE job_posts[i]]
            /\ applications' = queue_apps(applications, job_posts, to_queue)
    /\ pc' = "idle"
    /\ op' = ""
    /\ min_score' = DefaultFilterConfig.min_score
    /\ yes' = FALSE
    /\ to_queue' = <<>>
    /\ filtered_out' = <<>>
    /\ UNCHANGED <<emails, last_error, run_vars>>
    /\ UNCHANGED <<url_vars, side_vars>>


(***************************************************************************)
(* run                                                                     *)
(***************************************************************************)

\* variant of select_queued_apps: only the applications of queued jobs
select_queued_apps_of_queued_jobs(apps, limit) ==
    LET all == Select(apps, LAMBDA a : a.status = "queued" /\ job_posts[a.job_post_id].status = "queued")
    IN  IF limit # 0 THEN SubSeq(all, 1, Min(limit, Len(all))) ELSE all

\* select(Application).where(status == queued).order_by(created_at), cut to
\* --limit (0 when the option is absent)
select_queued_apps(apps, limit) ==
    LET all == Select(apps, LAMBDA a : a.status = "queued")
    IN  IF limit # 0 THEN SubSeq(all, 1, Min(limit, Len(all))) ELSE all

\* the command returns: its locals are gone
EndRun ==
    /\ queued_apps' = <<>>
    /\ cur' = 0
    /\ llm_on' = FALSE
    /\ calls' = <<>>
    /\ answer' = None

\* run, lines 554-578: pick the queued applications and open the run record
RunStart(limit, llm) ==
    /\ pc = "idle"
    /\ LET picked == select_queued_apps(applications, limit)
       IN  IF picked = <<>>
           THEN UNCHANGED <<pc, run_vars>>
           ELSE /\ queued_apps' = picked
                /\ cur' = 1
                /\ llm_on' = llm
                /\ calls' = <<>>
                /\ answer' = None
                /\ run_status' = "running"
                /\ pc' = "run_loop"
    /\ op' = ""
    /\ last_error' = ""
    /\ UNCHANGED <<job_posts, applications, emails, queue_vars>>
    /\ UNCHANGED <<url_vars, side_vars>>

\* the application at hand and its job
app_id == queued_apps[cur]

job_id == applications[app_id].job_post_id

SetApp(field_updates(_)) ==
    applications' = [applications EXCEPT ![app_id] = field_updates(@)]

\* variant of _ask_submit_confirmation: any answer starting with y or Y passes
_ask_submit_confirmation_prefix(typed) == StartsWith(upper(strip(typed)), "Y")

\* _ask_submit_confirmation: input().strip().upper() == "YES"
_ask_submit_confirmation(typed) == upper(strip(typed)) = "YES"

\* adapter = get_adapter(job.url), line 661: its ats_type, "" for None
adapter_for(url) == (CHOOSE e \in AdapterTable : e[1] = url)[2]

\* run, lines 581-597 and _process_application, lines 661-689: the next
\* application is declined, has no adapter, is declined in guided mode, or is
\* marked started
RunNext(proceed, guided) ==
    /\ pc = "run_loop"
    /\ cur <= Len(queued_apps)
    /\ LET adapter == adapter_for(job_posts[job_id].url)
       IN  IF ~proceed
           THEN /\ SetApp(LAMBDA a : [a EXCEPT !.status = "skipped"])
                /\ cur' = cur + 1
                /\ op' = ""
                /\ UNCHANGED pc
           ELSE IF adapter = ""
           THEN /\ SetApp(LAMBDA a : [a EXCEPT !.status = "skipped",
                                        !.error_message = Some("No adapter for ATS: "
                                                               \o job_posts[job_id].ats_type)])
                /\ cur' = cur + 1
                /\ op' = ""
                /\ UNCHANGED pc
           ELSE IF adapter = "workday" /\ ~guided
           THEN /\ SetApp(LAMBDA a : [a EXCEPT !.status = "skipped"])
                /\ cur' = cur + 1
                /\ op' = ""
                /\ UNCHANGED pc
           ELSE /\ SetApp(LAMBDA a : [a EXCEPT !.status = "started", !.ats_type = adapter])
                /\ pc' = "app_started"
                /\ op' = ""
                /\ UNCHANGED cur
    /\ calls' = <<>>
    /\ answer' = None
    /\ UNCHANGED <<job_posts, emails, last_error, queue_vars, queued_apps, llm_on, run_status>>
    /\ UNCHANGED <<url_vars, side_vars>>

\* _process_application, lines 793-817: an exception of the step is caught,
\* the application is marked error and the loop goes on
HandleError ==
    /\ SetApp(LAMBDA a : [a EXCEPT !.status = "error", !.error_message = Some("Error")])
    /\ cur' = cur + 1
    /\ pc' = "run_loop"

\* lines 691-697: the browser opens and adapter.open_and_prepare is called;
\* a browser that fails to launch raises outside the try block
RunOpen(outcome) ==
    /\ pc = "app_started"
    /\ \/ /\ outcome = "ok"
          /\ calls' = Append(calls, "open_and_prepare")
          /\ pc' = "app_opened"
          /\ op' = ""
          /\ UNCHANGED <<applications, cur, last_error, run_status, queued_apps, llm_on, answer>>
       \/ /\ outcome = "raises"
          /\ calls' = Append(calls, "open_and_prepare")
          /\ HandleError
          /\ op' = ""
          /\ UNCHANGED <<last_error, run_status, queued_apps, llm_on, answer>>
       \/ /\ outcome = "no_browser"
          /\ last_error' = "Error"
          /\ pc' = "idle"
          /\ op' = ""
          /\ EndRun
          /\ UNCHANGED <<applications, run_status>>
    /\ UNCHANGED <<job_posts, emails, queue_vars>>
    /\ UNCHANGED <<url_vars, side_vars>>

\* lines 699-710: adapter.fill_form, then the application is marked filled
RunFill(ok) ==
    /\ pc = "app_opened"
    /\ calls' = Append(calls, "fill_form")
    /\ IF ok
       THEN /\ SetApp(LAMBDA a : [a EXCEPT !.status = "filled"])
            /\ pc' = "app_filled"
            /\ op' = ""
            /\ UNCHANGED cur
       ELSE /\ HandleError
            /\ op' = ""
    /\ UNCHANGED <<job_posts, emails, last_error, queue_vars, queued_apps, llm_on,
                   answer, run_status>>
    /\ UNCHANGED <<url_vars, side_vars>>

\* lines 712-731: the manual Workday gate or adapter.reach_review_step, then
\* the application is marked needs_review
RunReview(ok) ==
    /\ pc = "app_filled"
    /\ IF applications[app_id].ats_type = "workday"
       THEN /\ calls' = Append(calls, "manual_review_gate")
            /\ SetApp(LAMBDA a : [a EXCEPT !.status = "needs_review"])
            /\ pc' = "app_review"
            /\ op' = ""
            /\ UNCHANGED cur
       ELSE /\ calls' = Append(calls, "reach_review_step")
            /\ IF ok
               THEN /\ SetApp(LAMBDA a : [a EXCEPT !.status = "needs_review"])
                    /\ pc' = "app_review"
                    /\ op' = ""
                    /\ UNCHANGED cur
               ELSE /\ HandleError
                    /\ op' = ""
    /\ UNCHANGED <<job_posts, emails, last_error, queue_vars, queued_apps, llm_on,
                   answer, run_status>>
    /\ UNCHANGED <<url_vars, side_vars>>

\* lines 733-760: the advisory LLM evaluation, when enabled
RunLLM(recommendation) ==
    /\ pc = "app_review"
    /\ IF llm_on
       THEN SetApp(LAMBDA a : [a EXCEPT !.llm_recommendation = Some(recommendation)])
       ELSE UNCHANGED applications
    /\ pc' = "app_gate"
    /\ op' = ""
    /\ UNCHANGED <<job_posts, emails, last_error, queue_vars, queued_apps, cur, llm_on,
                   calls, answer, run_status>>
    /\ UNCHANGED <<url_vars, side_vars>>

\* variant of submitted_job: the job stays as it was
submitted_job_kept(rows, id) == rows

\* lines 775-776: job.status = JobStatus.skipped, session.add(job)
submitted_job(rows, id) == [rows EXCEPT ![id].status = "skipped"]

\* lines 762-783: the human gate, then submit or skip
RunGate(typed, ok) ==
    /\ pc = "app_gate"
    /\ answer' = Some(typed)
    /\ IF _ask_submit_confirmation(typed)
       THEN /\ calls' = Append(calls, "submit")
            /\ IF ok
               THEN /\ SetApp(LAMBDA a : [a EXCEPT !.status = "submitted"])
                    /\ job_posts' = submitted_job(job_posts, job_id)
                    /\ cur' = cur + 1
                    /\ pc' = "run_loop"
                    /\ op' = ""
               ELSE /\ HandleError
                    /\ op' = ""
                    /\ UNCHANGED job_posts
       ELSE /\ SetApp(LAMBDA a : [a EXCEPT !.status = "skipped"])
            /\ cur' = cur + 1
            /\ pc' = "run_loop"
            /\ op' = ""
            /\ UNCHANGED <<job_posts, calls>>
    /\ UNCHANGED <<emails, last_error, queue_vars, queued_apps, llm_on, run_status>>
    /\ UNCHANGED <<url_vars, side_vars>>

\* KeyboardInterrupt at a prompt or during a step: the application keeps its
\* status and the run is marked interrupted (lines 785-791, 624-634)
RunInterrupt ==
    /\ pc \in {"run_loop", "app_started", "app_opened", "app_filled", "app_review", "app_gate"}
    /\ pc = "run_loop" => cur <= Len(queued_apps)
    /\ run_status' = "interrupted"
    /\ pc' = "idle"
    /\ op' = ""
    /\ EndRun
    /\ UNCHANGED <<job_posts, applications, emails, last_error, queue_vars>>
    /\ UNCHANGED <<url_vars, side_vars>>

\* lines 627-634: the loop is over
RunFinish ==
    /\ pc = "run_loop"
    /\ cur > Len(queued_apps)
    /\ run_status' = "completed"
    /\ pc' = "idle"
    /\ op' = ""
    /\ EndRun
    /\ UNCHANGED <<job_posts, applications, emails, last_error, queue_vars>>
    /\ UNCHANGED <<url_vars, side_vars>>

(***************************************************************************)
(* reset                                                                   *)
(***************************************************************************)

\* reset <prefix>: the first application found for the prefix goes back to
\* queued; the prefix of an application id selects that application, the
\* prefix of a job id the first application of that job
Reset(a) ==
    /\ pc = "idle"
    /\ a \in 1..Len(applications)
    /\ applications' = [applications EXCEPT ![a] = [@ EXCEPT !.status = "queued", !.error_message = None]]
    /\ op' = "reset"
    /\ last_error' = ""
    /\ UNCHANGED <<job_posts, emails, pc, queue_vars, run_vars>>
    /\ UNCHANGED <<url_vars, side_vars>>

(***************************************************************************)
(* The commands of one user, one after the other                           *)
(***************************************************************************)

Next ==
    \/ \E jobs \in GithubFetches, dry_run \in BOOLEAN : FetchGithub(jobs, dry_run)
    \/ \E raw_emails \in RawEmailLists, dry_run \in BOOLEAN : FetchGmail(raw_emails, dry_run)
    \/ \E m \in MinScoreOptions, y \in BOOLEAN : QueueScore(m, y)
    \/ \E confirmed \in BOOLEAN : QueueFinish(confirmed)
    \/ \E limit \in {0, 1}, llm \in {FALSE} : RunStart(limit, llm)
    \/ \E proceed \in BOOLEAN, guided \in BOOLEAN : RunNext(proceed, guided)
    \/ \E outcome \in {"ok", "raises", "no_browser"} : RunOpen(outcome)
    \/ \E ok \in BOOLEAN : RunFill(ok)
    \/ \E ok \in BOOLEAN : RunReview(ok)
    \/ \E recommendation \in LLMRecommendation : RunLLM(recommendation)
    \/ \E typed \in SubmitAnswers, ok \in BOOLEAN : RunGate(typed, ok)
    \/ RunInterrupt
    \/ RunFinish
    \/ \E a \in 1..Len(applications) : Reset(a)

Spec == Init /\ [][Next]_vars


(***************************************************************************)
(* The URL functions of utils/hashing.py on their own: a URL and a second  *)
(* spelling of it are canonicalised, hashed, and fetched one after the     *)
(* other from the README feed                                              *)
(***************************************************************************)

UrlSchemes == {"https", "HTTPS"}

UrlHosts == {"x.com"}

\* paths without a trailing slash, and the root path
UrlPaths == {"/", "/a", "/a/b", "/a;p"}

\* queries: none, plain, tracking, blank-valued, percent-encoded, a redirect,
\* and a redirect whose target carries a redirect
UrlQueries ==
    {"", "id=1", "utm_source=n&id=1", "b=", "q=a%20b",
     "url=https://b.com/r",
     "url=https://b.com/r?url=https://c.com/x"}

UrlFragments == {"", "#f"}

\* tracking parameters the second spelling may carry: none, or one whose
\* lowercased name is in _TRACKING_PARAMS
TrackingExtras == {"", "ref=newsletter", "UTM_Source=n"}

MakeUrl(scheme, host, path, query, fragment) ==
    scheme \o "://" \o host \o path \o (IF query = "" THEN "" ELSE "?" \o query) \o fragment

AddQuery(query, extra) ==
    IF extra = "" THEN query ELSE IF query = "" THEN extra ELSE query \o "&" \o extra

\* the README row that carries a URL
UrlRow(u) ==
    [company |-> "Acme", title |-> "Software Engineer Intern", url |-> Some(u), location |-> None]

InitUrl ==
    /\ InitStore
    /\ \E scheme \in UrlSchemes, host \in UrlHosts, path \in UrlPaths, query \in UrlQueries,
          fragment \in UrlFragments, slash \in BOOLEAN, extra \in TrackingExtras :
          /\ slash \/ extra # ""
          /\ slash => path # "/"
          /\ url_a = MakeUrl(scheme, host, path, query, fragment)
          /\ url_b = MakeUrl(scheme, host, IF slash THEN path \o "/" ELSE path,
                             AddQuery(query, extra), fragment)
    /\ canons = [a |-> <<>>, b |-> <<>>]
    /\ hashes = <<>>
    /\ ingested = 0
    /\ InitSide

store_vars == <<job_posts, applications, emails, pc, op, last_error, queue_vars, run_vars>>

\* canonicalise_url of each spelling, then of each result
UrlCanonicalise ==
    /\ Len(canons.a) < 2
    /\ canons' = IF canons.a = <<>>
                 THEN [a |-> <<canonicalise_url(url_a)>>, b |-> <<canonicalise_url(url_b)>>]
                 ELSE [a |-> Append(canons.a, canonicalise_url(canons.a[1])),
                       b |-> Append(canons.b, canonicalise_url(canons.b[1]))]
    /\ UNCHANGED <<store_vars, url_a, url_b, hashes, ingested, side_vars>>

\* url_hash of the URL, of its canonical form and of the second spelling
UrlHash ==
    /\ Len(canons.a) = 2
    /\ hashes = <<>>
    /\ hashes' = <<[of_url |-> url_hash(url_a), of_canon |-> url_hash(canons.a[1]),
                    of_variant |-> url_hash(url_b)]>>
    /\ UNCHANGED <<store_vars, url_a, url_b, canons, ingested, side_vars>>

\* fetch --source github with a README whose one row carries the next spelling
UrlFetch ==
    /\ hashes # <<>>
    /\ ingested < 2
    /\ fetch_github(github_jobs(<<UrlRow(IF ingested = 0 THEN url_a ELSE url_b)>>, {},
                                DefaultFilterConfig), FALSE)
    /\ ingested' = ingested + 1
    /\ UNCHANGED <<url_a, url_b, canons, hashes, side_vars>>

NextUrl ==
    \/ UrlCanonicalise
    \/ UrlHash
    \/ UrlFetch

SpecUrl == InitUrl /\ [][NextUrl]_vars

(***************************************************************************)
(* src/app/gmail/parser.py: the extractor.  A document is the parsed tree  *)
(* reduced to what the strategies look at: its blocks in document order,   *)
(* each with its tag and class, the number of its td cells, the text of    *)
(* the element next to its links that names the company (<<>> when there   *)
(* is none), its anchors (text and href) and the location that             *)
(* _extract_location_from_text finds in its text.                          *)
(***************************************************************************)

_ATS_DOMAINS ==
    <<"ashbyhq.com", "greenhouse.io", "lever.co", "myworkdayjobs.com", "smartrecruiters.com",
      "icims.com", "taleo.net", "grnh.se", "breezy.hr", "jobvite.com", "bamboohr.com",
      "workable.com", "simplify.jobs">>

_JOB_PATH_FRAGMENTS ==
    <<"/job/", "/jobs/", "/career/", "/careers/", "/apply/", "/application/", "/position/",
      "/opening/">>

_SKIP_TEXTS ==
    {"unsubscribe", "view in browser", "privacy policy", "terms", "help",
     "manage preferences", "opt out", "click here", "", "apply"}

\* pattern.search(href) for a case-insensitive alternation of literals
search_any(literals, href_lower) ==
    \E i \in 1..Len(literals) : Contains(literals[i], href_lower)

ats_domains_search(href) == search_any(_ATS_DOMAINS, lower(href))

job_path_search(href) == search_any(_JOB_PATH_FRAGMENTS, lower(href))

_is_job_url(url) == ats_domains_search(url) \/ job_path_search(url)

\* re.sub(r"\s+", " ", text) on s[lo..hi]: a blank that follows a blank is
\* dropped (the string is halved at each step)
RECURSIVE collapse_spaces(_, _, _)
collapse_spaces(s, lo, hi) ==
    IF lo > hi THEN ""
    ELSE IF lo = hi
    THEN (IF Char(s, lo) = " " /\ lo > 1 /\ Char(s, lo - 1) = " " THEN "" ELSE Char(s, lo))
    ELSE collapse_spaces(s, lo, (lo + hi) \div 2) \o collapse_spaces(s, ((lo + hi) \div 2) + 1, hi)

_clean_text(text) == strip(collapse_spaces(text, 1, Len(text)))

\* not (not title or title.lower() in _SKIP_TEXTS)
usable_title(cleaned) == cleaned # "" /\ lower(cleaned) \notin _SKIP_TEXTS

\* str.isdigit()
isdigit(p) == p # "" /\ \A i \in 1..Len(p) : InStr(Char(p, i), Digits)

\* str.replace(old, new) for one-character strings
RECURSIVE replace_char(_, _, _)
replace_char(s, old, new) ==
    IF Len(s) = 0 THEN ""
    ELSE IF Len(s) = 1 THEN (IF s = old THEN new ELSE s)
    ELSE replace_char(Take(s, Len(s) \div 2), old, new)
         \o replace_char(Drop(s, Len(s) \div 2), old, new)

IsLetter(c) == InStr(c, UpperLetters) \/ InStr(c, LowerLetters)

\* str.title() on s[lo..hi]: a letter after a letter is lowered, any other
\* letter raised
RECURSIVE str_title_from(_, _, _)
str_title_from(s, lo, hi) ==
    IF lo > hi THEN ""
    ELSE IF lo = hi
    THEN (IF lo > 1 /\ IsLetter(Char(s, lo - 1)) THEN LowerChar(Char(s, lo))
          ELSE UpperChar(Char(s, lo)))
    ELSE str_title_from(s, lo, (lo + hi) \div 2) \o str_title_from(s, ((lo + hi) \div 2) + 1, hi)

str_title(s) == str_title_from(s, 1, Len(s))

\* _title_from_url, lines 340-343, given the path
title_from_path(path) ==
    LET parts == SelectSeq(split(path, "/"), LAMBDA p : p # "" /\ ~isdigit(p) /\ Len(p) > 3)
    IN  IF parts = <<>> THEN ""
        ELSE str_title(replace_char(replace_char(parts[Len(parts)], "-", " "), "_", " "))

_title_from_url(url) == title_from_path(urlparse(url).path)

\* the company found next to a link, else "Unknown Company": _infer_company
\* (line 298) and _find_company_in_row (line 279) accept a text below max_len
company_near(max_len, cleaned) ==
    IF cleaned # "" /\ Len(cleaned) < max_len /\ lower(cleaned) \notin _SKIP_TEXTS
    THEN cleaned ELSE "Unknown Company"

_infer_company(block) == company_near(80, _clean_text(OrEmpty(block.strong)))

_find_company_in_row(block) == company_near(60, _clean_text(OrEmpty(block.strong)))

\* a candidate tuple (company, title, url, location)
Candidate(company, title, url, location) ==
    [company |-> company, title |-> title, url |-> url, location |-> location]

\* _remove_boilerplate: elements with a footer-like class or id are dropped
_remove_boilerplate(document) == SelectSeq(document, LAMBDA block : block.tag # "div.footer")

\* strategy 0, lines 156-165 for one paragraph, given the cleaned link text
paragraph_candidate(block, cleaned) ==
    IF usable_title(cleaned)
    THEN <<Candidate(IF block.strong = None THEN "Unknown Company"
                     ELSE rstrip(_clean_text(block.strong[1]), ":"),
                     cleaned, block.links[1].href, block.location)>>
    ELSE <<>>

paragraph_block(block) ==
    IF block.tag # "p.internship" \/ block.links = <<>> THEN <<>>
    ELSE paragraph_candidate(block, _clean_text(block.links[1].text))

RECURSIVE _strategy_swelist_paragraphs(_)
_strategy_swelist_paragraphs(soup) ==
    IF soup = <<>> THEN <<>>
    ELSE paragraph_block(Head(soup)) \o _strategy_swelist_paragraphs(Tail(soup))

\* strategy 1, lines 188-208 for one table row, given the index of its first
\* link with a job url (0 if none) and then the cleaned text of that link
row_candidate(block, k, cleaned) ==
    IF usable_title(cleaned) /\ block.links[k].href # ""
    THEN <<Candidate(_find_company_in_row(block), cleaned, block.links[k].href, block.location)>>
    ELSE <<>>

row_link(block, k) ==
    IF k = 0 THEN <<>> ELSE row_candidate(block, k, _clean_text(block.links[k].text))

row_block(block) ==
    IF block.tag # "tr" \/ block.cells < 2 \/ block.links = <<>> THEN <<>>
    ELSE row_link(block, Least({k \in 1..Len(block.links) : _is_job_url(block.links[k].href)}))

RECURSIVE table_rows(_)
table_rows(soup) ==
    IF soup = <<>> THEN <<>> ELSE row_block(Head(soup)) \o table_rows(Tail(soup))

\* a link with its cleaned text as title and the company inferred around it
\* (lines 218-223 and 259-265)
link_candidate(block, k, cleaned) ==
    IF usable_title(cleaned)
    THEN <<Candidate(_infer_company(block), cleaned, block.links[k].href, block.location)>>
    ELSE <<>>

RECURSIVE card_links(_, _)
card_links(block, k) ==
    IF k > Len(block.links) THEN <<>>
    ELSE (IF _is_job_url(block.links[k].href)
          THEN link_candidate(block, k, _clean_text(block.links[k].text)) ELSE <<>>)
         \o card_links(block, k + 1)

RECURSIVE card_blocks(_)
card_blocks(soup) ==
    IF soup = <<>> THEN <<>>
    ELSE (IF Head(soup).tag = "div.card" THEN card_links(Head(soup), 1) ELSE <<>>)
         \o card_blocks(Tail(soup))

\* the cards are tried when the table rows gave nothing (line 211)
structured_from(soup, results) == IF results # <<>> THEN results ELSE card_blocks(soup)

_strategy_structured_cards(soup) == structured_from(soup, table_rows(soup))

\* strategy 2, lines 237-246 for one link to an ATS domain: a skipped or
\* empty text is replaced by the title derived from the url
ats_candidate(block, k, link_title) ==
    IF link_title = "" THEN <<>>
    ELSE <<Candidate(_infer_company(block), link_title, block.links[k].href, block.location)>>

ats_title(block, k, cleaned) ==
    ats_candidate(block, k, IF usable_title(cleaned) THEN cleaned
                            ELSE _title_from_url(block.links[k].href))

RECURSIVE ats_links(_, _)
ats_links(block, k) ==
    IF k > Len(block.links) THEN <<>>
    ELSE (IF ats_domains_search(block.links[k].href)
          THEN ats_title(block, k, _clean_text(block.links[k].text)) ELSE <<>>)
         \o ats_links(block, k + 1)

RECURSIVE _strategy_ats_links(_)
_strategy_ats_links(soup) ==
    IF soup = <<>> THEN <<>> ELSE ats_links(Head(soup), 1) \o _strategy_ats_links(Tail(soup))

\* strategy 3, lines 256-265
RECURSIVE job_path_links(_, _)
job_path_links(block, k) ==
    IF k > Len(block.links) THEN <<>>
    ELSE (IF job_path_search(block.links[k].href)
          THEN link_candidate(block, k, _clean_text(block.links[k].text)) ELSE <<>>)
         \o job_path_links(block, k + 1)

RECURSIVE _strategy_job_path_links(_)
_strategy_job_path_links(soup) ==
    IF soup = <<>> THEN <<>>
    ELSE job_path_links(Head(soup), 1) \o _strategy_job_path_links(Tail(soup))

\* variant of _extract_candidates: every strategy contributes
_extract_candidates_all(soup) ==
    _strategy_swelist_paragraphs(soup) \o _strategy_structured_cards(soup)
    \o _strategy_ats_links(soup) \o _strategy_job_path_links(soup)

\* _extract_candidates, lines 137-139, 133-135 and 129-131, given the
\* candidates so far
extract_fallback(soup, candidates) ==
    IF candidates # <<>> THEN candidates ELSE _strategy_job_path_links(soup)

extract_ats(soup, candidates) ==
    extract_fallback(soup, IF candidates # <<>> THEN candidates ELSE _strategy_ats_links(soup))

extract_cards(soup, candidates) ==
    extract_ats(soup, IF candidates # <<>> THEN candidates ELSE _strategy_structured_cards(soup))

_extract_candidates(soup) == extract_cards(soup, _strategy_swelist_paragraphs(soup))

\* parse_email_html
parse_email_html(html, source_email_id) ==
    parse_candidates(_extract_candidates(_remove_boilerplate(html)), {}, source_email_id)

(***************************************************************************)
(* The extractor on its own: a document is parsed, then a README is read   *)
(***************************************************************************)

\* most blocks in one document
MaxBlocks == 2

Link(text, href) == [text |-> text, href |-> href]

Block(tag, cells, strong, links, location) ==
    [tag |-> tag, cells |-> cells, strong |-> strong, links |-> links, location |-> location]

\* the blocks a digest can hold
Blocks ==
    <<Block("p.internship", 0, Some("Stripe:"),
            <<Link("Software  Engineer Intern ", "https://simplify.jobs/p/1?utm_source=swelist")>>,
            None),
      Block("p.internship", 0, None,
            <<Link("Apply", "https://jobs.lever.co/acme/backend-intern")>>, None),
      Block("tr", 3, Some("Globex"),
            <<Link("Help", "https://globex.com/help"),
              Link("Data Intern", "https://globex.com/careers/9/")>>, Some("Remote")),
      Block("tr", 1, Some("Hooli"),
            <<Link("Infra Intern", "https://hooli.com/jobs/3")>>, None),
      Block("div.card", 0, Some("Initech"),
            <<Link("SWE Intern", "https://boards.greenhouse.io/initech/jobs/7"),
              Link("Data Intern", "https://boards.greenhouse.io/initech/jobs/8"),
              Link("SWE Intern (apply)", "HTTPS://boards.greenhouse.io/initech/jobs/7/?ref=x")>>,
            Some("Austin, TX")),
      Block("p", 0, None,
            <<Link("Unsubscribe", "https://jobs.lever.co/acme/unsubscribe")>>, None),
      Block("p", 0, None,
            <<Link("Privacy Policy", "https://x.com/jobs/privacy")>>, None),
      Block("p", 0, Some("Umbrella"),
            <<Link("Platform Intern",
                   "https://swelist.com/jobs/click?url=https://b.com/r?url=https://c.com/x")>>,
            None),
      Block("div.footer", 0, None,
            <<Link("Backend Engineer", "https://jobs.ashbyhq.com/acme/1")>>, None),
      Block("p", 0, None,
            <<Link("", "https://jobs.ashbyhq.com/stripe/abc")>>, None)>>

\* the documents: at most MaxBlocks blocks
EmailDocuments == SeqsUpTo({Blocks[i] : i \in 1..Len(Blocks)}, MaxBlocks)

\* the apply urls a README row can carry
ReadmeUrls ==
    {"https://jobs.ashbyhq.com/stripe/abc?utm_source=readme",
     "https://x.com/jobs/a;p/",
     "https://initech.wd1.myworkdayjobs.com/ext/job/7"}

\* the READMEs: one row, or two rows with the same url
Readmes ==
    {<<>>} \cup {<<UrlRow(u)>> : u \in ReadmeUrls} \cup {<<UrlRow(u), UrlRow(u)>> : u \in ReadmeUrls}

InitParse ==
    /\ InitStore
    /\ url_a = ""
    /\ url_b = ""
    /\ canons = [a |-> <<>>, b |-> <<>>]
    /\ hashes = <<>>
    /\ ingested = 0
    /\ classified = NoClassified
    /\ resolver = NoResolver
    /\ evaluation = NoEvaluation
    /\ scoring = NoScoring
    /\ writers = NoWriters
    /\ \E d \in EmailDocuments : extraction = [NoExtraction EXCEPT !.stage = "document", !.document = d]

\* parse_email_html(html, source_email_id) on the document; the candidates of
\* line 74 and what each strategy finds in the soup are kept beside the jobs
ParseEmailHtml ==
    /\ extraction.stage = "document"
    /\ extraction' =
         [extraction EXCEPT
            !.stage = "parsed",
            !.strategies = <<_strategy_swelist_paragraphs(_remove_boilerplate(extraction.document)),
                             _strategy_structured_cards(_remove_boilerplate(extraction.document)),
                             _strategy_ats_links(_remove_boilerplate(extraction.document)),
                             _strategy_job_path_links(_remove_boilerplate(extraction.document))>>,
            !.candidates = _extract_candidates(_remove_boilerplate(extraction.document)),
            !.jobs = parse_email_html(extraction.document, Some("m1"))]
    /\ UNCHANGED <<store_vars, url_vars, scoring, writers, classified, resolver, evaluation>>

\* fetch_github_jobs(cfg.filter) on a README
FetchGithubJobs(rows) ==
    /\ extraction.stage = "parsed"
    /\ extraction' = [extraction EXCEPT !.stage = "fetched", !.readme = rows,
                                        !.readme_jobs = github_jobs(rows, {}, DefaultFilterConfig)]
    /\ UNCHANGED <<store_vars, url_vars, scoring, writers, classified, resolver, evaluation>>

NextParse ==
    \/ ParseEmailHtml
    \/ \E rows \in Readmes : FetchGithubJobs(rows)

SpecParse == InitParse /\ [][NextParse]_vars

(***************************************************************************)
(* src/app/utils/filter.py on its own: two titles are scored for the same  *)
(* location, ATS and configuration                                         *)
(***************************************************************************)

\* the two titles of a scoring, by what the default keywords find in them
TitlePairs ==
    {<<"Software Engineer Intern", "Accountant">>,
     <<"SWE Backend Data Infra Intern", "SWE Intern">>,
     <<"Senior SWE", "Software Engineer Intern">>,
     <<"", "Software Engineer">>}

\* the locations of a posting
ScoreLocations == {None, Some("Remote"), Some("New York, NY"), Some("REMOTE - India")}

\* the ats_type of a posting
ScoreAts == {None, Some("ashby"), Some("Greenhouse")}

\* filter.min_score, in thousandths
ScoreThresholds == {0, 300, 600}

\* filter.excluded_locations
ExcludedLocations == {<<>>, <<"UK", "india", "Remote">>}

\* filter.preferred_locations
PreferredLocations == {<<>>, <<"Austin", "new york">>}

\* filter.title_keywords
TitleKeywords == {DefaultFilterConfig.title_keywords, <<"SWE", "swe", "Engineer">>}

\* the configurations
FilterConfigs ==
    {[min_score |-> t, title_keywords |-> kws, preferred_ats |-> DefaultFilterConfig.preferred_ats,
      preferred_locations |-> pref, excluded_locations |-> excl] :
        t \in ScoreThresholds, kws \in TitleKeywords, pref \in PreferredLocations,
        excl \in ExcludedLocations}

InitScore ==
    /\ InitStore
    /\ url_a = ""
    /\ url_b = ""
    /\ canons = [a |-> <<>>, b |-> <<>>]
    /\ hashes = <<>>
    /\ ingested = 0
    /\ classified = NoClassified
    /\ resolver = NoResolver
    /\ evaluation = NoEvaluation
    /\ extraction = NoExtraction
    /\ writers = NoWriters
    /\ \E pair \in TitlePairs, location \in ScoreLocations, ats_type \in ScoreAts,
          cfg \in FilterConfigs :
            scoring = [stage |-> "input", titles |-> [a |-> pair[1], b |-> pair[2]],
                       location |-> location, ats_type |-> ats_type, cfg |-> cfg,
                       results |-> [a |-> None, b |-> None]]

\* score_job(title, company, location, ats_type, cfg) for one of the titles
ScoreJob(t) ==
    /\ scoring.stage = "input"
    /\ scoring.results[t] = None
    /\ scoring' = [scoring EXCEPT
                     !.results[t] = Some(score_job(scoring.titles[t], "X", scoring.location,
                                                   scoring.ats_type, scoring.cfg))]
    /\ UNCHANGED <<store_vars, url_vars, extraction, writers, classified, resolver, evaluation>>

NextScore == \E t \in {"a", "b"} : ScoreJob(t)

SpecScore == InitScore /\ [][NextScore]_vars

(***************************************************************************)
(* Two ingestion runs on one database file (src/app/cli/main.py fetch and  *)
(* watch, src/app/models/schema.py get_engine and get_session).  Each run  *)
(* is a process with its own Session; job_posts is what is committed.  A   *)
(* Session autoflushes before each select: the rows added so far are       *)
(* INSERTed in the run's open transaction, which takes the write lock of   *)
(* the file until the run commits or rolls back.                           *)
(***************************************************************************)

\* the runs
Writers == {1, 2}

\* the other run
other(w) == 3 - w

\* a run that has fetched its jobs and opened its session (lines 286-291
\* and 397-399)
Writer(command, jobs) ==
    [command |-> command, jobs |-> jobs, k |-> 1, added |-> <<>>, flushed |-> <<>>,
     status |-> "storing", error |-> ""]

\* watch, line 403: the only exception the loop handles around _store_jobs
\* and session.commit()
watch_catches(error) == error = "RuntimeError"

\* an exception leaves the with block: the session is closed, its
\* transaction rolled back; fetch has no handler around lines 291-294
raised(proc, error) ==
    [proc EXCEPT !.added = <<>>, !.flushed = <<>>, !.error = error,
                 !.status = IF proc.command = "watch" /\ watch_catches(error)
                            THEN "caught" ELSE "failed"]

\* the INSERTs of a flush are accepted: url_hash stays unique among the
\* committed rows and the rows of the run's transaction
flush_accepted(rows, proc) == url_hash_unique(rows \o proc.flushed \o proc.added)

\* _store_jobs, lines 102-127 for the job at hand once the autoflush of the
\* select went through: rows are the committed rows and flushed the rows of
\* the run's transaction
store_job(proc, rows, flushed) ==
    [proc EXCEPT !.flushed = flushed,
                 !.added = IF existing(rows \o flushed, proc.jobs[proc.k].url_hash) THEN <<>>
                           ELSE <<JobPost(proc.jobs[proc.k], None)>>,
                 !.k = proc.k + 1]

InitWriters ==
    /\ InitStore
    /\ url_a = ""
    /\ url_b = ""
    /\ canons = [a |-> <<>>, b |-> <<>>]
    /\ hashes = <<>>
    /\ ingested = 0
    /\ classified = NoClassified
    /\ resolver = NoResolver
    /\ evaluation = NoEvaluation
    /\ extraction = NoExtraction
    /\ scoring = NoScoring
    /\ \E c1 \in {"fetch", "watch"}, c2 \in {"fetch", "watch"}, jobs1 \in GithubFetches,
          jobs2 \in GithubFetches :
            writers = [stage |-> "running", lock |-> 0,
                       procs |-> <<Writer(c1, jobs1), Writer(c2, jobs2)>>]

\* one pass of the loop of _store_jobs in run w: the select flushes the row
\* added in the pass before, which waits while the other run holds the write
\* lock and raises IntegrityError when the other run has committed the hash
StoreJob(w) ==
    /\ writers.stage = "running"
    /\ writers.procs[w].status = "storing"
    /\ writers.procs[w].k <= Len(writers.procs[w].jobs)
    /\ writers.procs[w].added = <<>> \/ writers.lock # other(w)
    /\ IF flush_accepted(job_posts, writers.procs[w])
       THEN writers' = [writers EXCEPT
                          !.procs[w] = store_job(writers.procs[w], job_posts,
                                                 writers.procs[w].flushed \o writers.procs[w].added),
                          !.lock = IF writers.procs[w].added # <<>> THEN w ELSE writers.lock]
       ELSE writers' = [writers EXCEPT !.procs[w] = raised(writers.procs[w], "IntegrityError"),
                                       !.lock = 0]
    /\ UNCHANGED <<store_vars, url_vars, extraction, scoring, classified, resolver, evaluation>>

\* session.commit() in run w (lines 294 and 401): flush, then COMMIT
CommitSession(w) ==
    /\ writers.stage = "running"
    /\ writers.procs[w].status = "storing"
    /\ writers.procs[w].k > Len(writers.procs[w].jobs)
    /\ writers.procs[w].added = <<>> \/ writers.lock # other(w)
    /\ IF flush_accepted(job_posts, writers.procs[w])
       THEN /\ job_posts' = job_posts \o writers.procs[w].flushed \o writers.procs[w].added
            /\ writers' = [writers EXCEPT
                             !.procs[w] = [writers.procs[w] EXCEPT !.added = <<>>, !.flushed = <<>>,
                                                                   !.status = "committed"],
                             !.lock = IF writers.lock = other(w) THEN writers.lock ELSE 0]
       ELSE /\ job_posts' = job_posts
            /\ writers' = [writers EXCEPT !.procs[w] = raised(writers.procs[w], "IntegrityError"),
                                          !.lock = 0]
    /\ UNCHANGED <<applications, emails, pc, op, last_error, queue_vars, run_vars>>
    /\ UNCHANGED <<url_vars, extraction, scoring, classified, resolver, evaluation>>

\* the flush of run w has waited for the write lock longer than the busy
\* timeout of the connection: OperationalError (database is locked)
LockTimeout(w) ==
    /\ writers.stage = "running"
    /\ writers.procs[w].status = "storing"
    /\ writers.procs[w].added # <<>>
    /\ writers.lock = other(w)
    /\ writers' = [writers EXCEPT !.procs[w] = raised(writers.procs[w], "OperationalError")]
    /\ UNCHANGED <<store_vars, url_vars, extraction, scoring, classified, resolver, evaluation>>

NextWriters ==
    \E w \in Writers :
        \/ StoreJob(w)
        \/ CommitSession(w)
        \/ LockTimeout(w)

SpecWriters == InitWriters /\ [][NextWriters]_vars

(***************************************************************************)
(* src/app/sources/github_readme.py on its own: the README's table, each   *)
(* row with its Application cell                                           *)
(***************************************************************************)

\* most rows in the table
MaxRows == 2

Anchor(href, imgs) == [href |-> href, imgs |-> imgs]

FeedRow(company, title, text, anchors) ==
    [company |-> company, title |-> title, location |-> Some("NYC"),
     application_td |-> [text |-> text, anchors |-> anchors]]

\* the rows of the feed, all with a company and a role that passes the filter
FeedRows ==
    {FeedRow("Acme", "SWE Intern", "",
             <<Anchor(Some("https://simplify.jobs/p/1"), <<"Simplify">>),
               Anchor(Some("https://jobs.lever.co/acme/1?utm_source=feed"), <<"Apply">>),
               Anchor(Some("https://jobs.lever.co/acme/2"), <<"Apply">>)>>),
     FeedRow("Bolt", "Data Intern", LockGlyph,
             <<Anchor(Some("https://jobs.ashbyhq.com/bolt/1"), <<"Apply">>)>>),
     FeedRow("Coda", "Backend Intern", "",
             <<Anchor(Some("https://simplify.jobs/p/3"), <<"Simplify">>),
               Anchor(Some("https://jobs.ashbyhq.com/coda/1"), <<>>)>>),
     FeedRow("Dune", "Infra Intern", "",
             <<Anchor(Some("https://boards.greenhouse.io/dune/jobs/1"), <<"logo", "APPLY">>)>>),
     FeedRow("Echo", "Platform Intern", "",
             <<Anchor(Some("https://jobs.lever.co/echo/1"), <<"Apply now">>)>>),
     FeedRow("Fern", "Systems Intern", "",
             <<Anchor(Some("https://jobs.lever.co/fern/1"), <<"Apply\n">>)>>),
     FeedRow("Gusto", "Software Engineer Intern", "",
             <<Anchor(None, <<"Apply">>),
               Anchor(Some("https://jobs.ashbyhq.com/gusto/1/"), <<"apply">>)>>),
     FeedRow("Hex", "Accountant", "",
             <<Anchor(Some("https://jobs.ashbyhq.com/hex/1"), <<"Apply">>)>>)}

\* the tables: at most MaxRows rows
FeedTables == SeqsUpTo(FeedRows, MaxRows)

InitFeed ==
    /\ InitStore
    /\ url_a = ""
    /\ url_b = ""
    /\ canons = [a |-> <<>>, b |-> <<>>]
    /\ hashes = <<>>
    /\ ingested = 0
    /\ classified = NoClassified
    /\ resolver = NoResolver
    /\ evaluation = NoEvaluation
    /\ scoring = NoScoring
    /\ writers = NoWriters
    /\ \E table \in FeedTables : extraction = [NoExtraction EXCEPT !.stage = "feed", !.readme = table]

\* fetch_github_jobs(cfg.filter) on the table
FetchFeed ==
    /\ extraction.stage = "feed"
    /\ extraction' = [extraction EXCEPT
                        !.stage = "feed_fetched",
                        !.readme_jobs = fetch_github_jobs(extraction.readme, DefaultFilterConfig)]
    /\ UNCHANGED <<store_vars, url_vars, scoring, writers, classified, resolver, evaluation>>

NextFeed == FetchFeed

SpecFeed == InitFeed /\ [][NextFeed]_vars

(***************************************************************************)
(* detect_ats_from_url of utils/hashing.py on its own                      *)
(***************************************************************************)

\* the hosts of a posting
AtsHosts ==
    {"jobs.ashbyhq.com", "boards.greenhouse.io", "jobs.lever.co", "acme.wd1.myworkdayjobs.com",
     "jobs.smartrecruiters.com", "careers-acme.icims.com", "acme.taleo.net", "apply.workable.com",
     "acme.breezy.hr", "simplify.jobs", "careers.acme.com"}

\* what follows the host
AtsTails ==
    {"/acme/1", "/acme/1?gh_jid=4", "/jobs/1?icims=1", "/p/1?ref=simplify.jobs",
     "/acme/1?src=Lever.co", "/jobs.ashby/1"}

AtsUrls == {"https://" \o host \o tail : host \in AtsHosts, tail \in AtsTails}

InitAts ==
    /\ InitStore
    /\ url_a = ""
    /\ url_b = ""
    /\ canons = [a |-> <<>>, b |-> <<>>]
    /\ hashes = <<>>
    /\ ingested = 0
    /\ extraction = NoExtraction
    /\ scoring = NoScoring
    /\ writers = NoWriters
    /\ resolver = NoResolver
    /\ evaluation = NoEvaluation
    /\ \E url \in AtsUrls : classified = [stage |-> "url", url |-> url, ats |-> ""]

\* detect_ats_from_url(url)
DetectAts ==
    /\ classified.stage = "url"
    /\ classified' = [classified EXCEPT !.stage = "detected",
                                        !.ats = detect_ats_from_url(classified.url)]
    /\ UNCHANGED <<store_vars, url_vars, extraction, scoring, writers, resolver, evaluation>>

NextAts == DetectAts

SpecAts == InitAts /\ [][NextAts]_vars

(***************************************************************************)
(* score_job compared with itself: one title scored under each ATS type,   *)
(* and with and without its location                                       *)
(***************************************************************************)

\* the titles compared
BoostTitles == {"Accountant", "Software Engineer Intern", "SWE Backend Data Infra Intern"}

\* the locations compared with no location
BoostLocations ==
    {Some("Remote"), Some("Austin, TX"), Some("Remote (New York)"), Some("Berlin"), Some("India")}

\* the ats_type values, listed in _ATS_BOOST or not
BoostAts ==
    {None, Some("unknown"), Some("workday"), Some("ashby"), Some("greenhouse"), Some("lever")}

InitBoost ==
    /\ InitStore
    /\ url_a = ""
    /\ url_b = ""
    /\ canons = [a |-> <<>>, b |-> <<>>]
    /\ hashes = <<>>
    /\ ingested = 0
    /\ extraction = NoExtraction
    /\ writers = NoWriters
    /\ classified = NoClassified
    /\ resolver = NoResolver
    /\ evaluation = NoEvaluation
    /\ \E title \in BoostTitles, location \in BoostLocations, ats_type \in {None, Some("ashby")},
          cfg \in FilterConfigs :
            scoring = [stage |-> "compare", title |-> title, location |-> location,
                       ats_type |-> ats_type, cfg |-> cfg,
                       by_ats |-> None, with_location |-> None, without_location |-> None]

\* score_job(title, company, location, ats_type, cfg) for each ats_type
ScoreEachAts ==
    /\ scoring.stage = "compare"
    /\ scoring.by_ats = None
    /\ scoring' = [scoring EXCEPT
                     !.by_ats = Some([a \in BoostAts |->
                                         score_job(scoring.title, "X", scoring.location, a, scoring.cfg)])]
    /\ UNCHANGED <<store_vars, url_vars, extraction, writers, classified, resolver, evaluation>>

\* score_job with the location, and with location = None
ScoreLocation ==
    /\ scoring.stage = "compare"
    /\ scoring.with_location = None
    /\ scoring' = [scoring EXCEPT
                     !.with_location = Some(score_job(scoring.title, "X", scoring.location,
                                                      scoring.ats_type, scoring.cfg)),
                     !.without_location = Some(score_job(scoring.title, "X", None,
                                                         scoring.ats_type, scoring.cfg))]
    /\ UNCHANGED <<store_vars, url_vars, extraction, writers, classified, resolver, evaluation>>

NextBoost ==
    \/ ScoreEachAts
    \/ ScoreLocation

SpecBoost == InitBoost /\ [][NextBoost]_vars

(***************************************************************************)
(* llm/evaluator.py and the steps of _process_application after the review *)
(* step: one application processed twice, the two runs given the same      *)
(* profile, key and typed answer and each its own reply of the LLM         *)
(***************************************************************************)

\* EvaluationResult with recommendation NA (lines 94-99, 158-165)
evaluation_na == [raised |-> FALSE, recommendation |-> "NA"]

\* lines 124-165: the API call and the parsing of its reply; a failed call and
\* a reply that is not the JSON asked for end in the except branch
evaluate_reply(reply) ==
    IF reply \in {"failure", "not json"} THEN evaluation_na
    ELSE IF reply = "{}" THEN [raised |-> FALSE, recommendation |-> "NA"]
    ELSE [raised |-> FALSE, recommendation |-> reply]

\* lines 100-122: the prompt is built before the try block;
\* profile.get("education", [{}])[0] raises IndexError on an empty list
evaluate_prompt(profile, reply) ==
    IF profile.education = Some(<<>>) THEN [raised |-> TRUE, recommendation |-> ""]
    ELSE evaluate_reply(reply)

\* evaluate_application(..., profile, ..., api_key, ...), with the reply the
\* API gives
evaluate_application(profile, api_key, reply) ==
    IF api_key = "" THEN evaluation_na ELSE evaluate_prompt(profile, reply)

\* _process_application, lines 793-817, for one run
run_error(run) == [run EXCEPT !.status = "error", !.error_message = Some("Error"), !.pc = "done"]

\* lines 733-760: the evaluation, stored with the application
llm_step(run, result) ==
    IF result.raised THEN run_error([run EXCEPT !.evaluated = Some(result)])
    ELSE [run EXCEPT !.llm_recommendation = Some(result.recommendation),
                     !.evaluated = Some(result), !.pc = "app_gate"]

\* lines 762-783: the human gate: submit, or skip
gate_step(run, typed, ok) ==
    IF _ask_submit_confirmation(typed)
    THEN IF ok
         THEN [run EXCEPT !.calls = Append(@, "submit"), !.status = "submitted",
                          !.job_status = "skipped", !.pc = "done"]
         ELSE run_error([run EXCEPT !.calls = Append(@, "submit")])
    ELSE [run EXCEPT !.status = "skipped", !.pc = "done"]

\* the profiles: the key "education" absent, an empty list, one entry
Profiles == {[education |-> None], [education |-> Some(<<>>)], [education |-> Some(<<"BS">>)]}

\* cfg.anthropic_api_key
ApiKeys == {"", "sk-ant"}

\* what the API call gives: a recommendation, a reply without one, a reply
\* that is not JSON, or an exception
Replies == {"RECOMMEND_SUBMIT", "RECOMMEND_SKIP", "NA", "{}", "not json", "failure"}

\* the two runs
Runs == {"a", "b"}

\* an application after the review step (line 727), its job queued
ReviewedRun ==
    [pc |-> "app_review", status |-> "needs_review", job_status |-> "queued",
     llm_recommendation |-> None, error_message |-> None, calls |-> <<>>,
     reply |-> None, evaluated |-> None]

InitLLM ==
    /\ InitStore
    /\ url_a = ""
    /\ url_b = ""
    /\ canons = [a |-> <<>>, b |-> <<>>]
    /\ hashes = <<>>
    /\ ingested = 0
    /\ extraction = NoExtraction
    /\ scoring = NoScoring
    /\ writers = NoWriters
    /\ classified = NoClassified
    /\ resolver = NoResolver
    /\ \E profile \in Profiles, api_key \in ApiKeys, typed \in SubmitAnswers, ok \in BOOLEAN :
          evaluation = [stage |-> "runs", profile |-> profile, api_key |-> api_key,
                        typed |-> typed, submit_ok |-> ok,
                        runs |-> [r \in Runs |-> ReviewedRun]]

\* the LLM evaluation of run r
EvaluateApplication(r, reply) ==
    /\ evaluation.stage = "runs"
    /\ evaluation.runs[r].pc = "app_review"
    /\ evaluation' =
         [evaluation EXCEPT
            !.runs[r] = llm_step([@ EXCEPT !.reply = Some(reply)],
                                 evaluate_application(evaluation.profile, evaluation.api_key, reply))]
    /\ UNCHANGED <<store_vars, url_vars, extraction, scoring, writers, classified, resolver>>

\* the submit prompt of run r, answered as in the other run
SubmitGate(r) ==
    /\ evaluation.stage = "runs"
    /\ evaluation.runs[r].pc = "app_gate"
    /\ evaluation' =
         [evaluation EXCEPT
            !.runs[r] = gate_step(@, evaluation.typed, evaluation.submit_ok)]
    /\ UNCHANGED <<store_vars, url_vars, extraction, scoring, writers, classified, resolver>>

NextLLM ==
    \/ \E r \in Runs, reply \in Replies : EvaluateApplication(r, reply)
    \/ \E r \in Runs : SubmitGate(r)

SpecLLM == InitLLM /\ [][NextLLM]_vars

(***************************************************************************)
(* QuestionResolver and the question_answers table: calls within a run and *)
(* runs one after the other                                                *)
(***************************************************************************)

\* most calls of the resolver
MaxCalls == 3

\* key = f"{ats_type}::{label.strip().lower()}"
resolver_key(label, ats_type) == ats_type \o "::" \o lower(strip(label))

\* variant of find_cached_answer: the label is compared as it was given
find_cached_answer_raw(rows, question_label, ats_type) ==
    Least({i \in 1..Len(rows) :
              rows[i].question_label = question_label /\ rows[i].ats_type = ats_type})

\* find_cached_answer: the index of the first row for the normalised label
\* and the ats_type, 0 for None
find_cached_answer(rows, question_label, ats_type) ==
    Least({i \in 1..Len(rows) :
              rows[i].question_label = lower(strip(question_label)) /\ rows[i].ats_type = ats_type})

\* QuestionAnswer(question_label=..., ats_type=..., answer=...)
QuestionAnswer(question_label, ats_type, given) ==
    [question_label |-> lower(strip(question_label)), ats_type |-> ats_type, answer |-> given]

\* upsert_answer, given the row found
upsert_found(rows, found, question_label, ats_type, given) ==
    IF found # 0 THEN [rows EXCEPT ![found].answer = given]
    ELSE Append(rows, QuestionAnswer(question_label, ats_type, given))

upsert_answer(rows, question_label, ats_type, given) ==
    upsert_found(rows, find_cached_answer(rows, question_label, ats_type),
                 question_label, ats_type, given)

\* self._run_cache[key], "" standing for a missing key in get_cached_answer
in_run_cache(cache, key) == \E e \in cache : e[1] = key

run_cache_get(cache, key) == (CHOOSE e \in cache : e[1] = key)[2]

\* QuestionResolver.__call__, steps 3 and 4: the user is asked, the answer is
\* saved and cached
resolver_ask(res, label, ats_type, typed) ==
    [res EXCEPT !.rows = upsert_answer(@, label, ats_type, typed),
                !.run_cache = @ \cup {<<resolver_key(label, ats_type), typed>>},
                !.prompts = Append(@, <<label, ats_type>>),
                !.returned = Some([label |-> label, ats_type |-> ats_type, answer |-> typed,
                                   prompted |-> TRUE])]

\* step 2: the saved answer, when there is one
resolver_saved(res, cached, label, ats_type, typed) ==
    IF cached # 0
    THEN [res EXCEPT !.run_cache = @ \cup {<<resolver_key(label, ats_type), res.rows[cached].answer>>},
                     !.returned = Some([label |-> label, ats_type |-> ats_type,
                                        answer |-> res.rows[cached].answer, prompted |-> FALSE])]
    ELSE resolver_ask(res, label, ats_type, typed)

\* QuestionResolver.__call__(label, ats_type, options); typed is what the
\* user answers if asked
resolver_call(res, label, ats_type, typed) ==
    IF in_run_cache(res.run_cache, resolver_key(label, ats_type))
    THEN [res EXCEPT !.returned = Some([label |-> label, ats_type |-> ats_type,
                                        answer |-> run_cache_get(res.run_cache,
                                                                 resolver_key(label, ats_type)),
                                        prompted |-> FALSE])]
    ELSE resolver_saved(res, find_cached_answer(res.rows, label, ats_type), label, ats_type, typed)

\* the labels of the unknown fields, the adapters asking, the answers typed
QuestionLabels == {"GPA", " gpa ", "Visa"}

ResolverAts == {"ashby", "lever"}

TypedAnswers == {"3.9", ""}

InitAnswers ==
    /\ InitStore
    /\ url_a = ""
    /\ url_b = ""
    /\ canons = [a |-> <<>>, b |-> <<>>]
    /\ hashes = <<>>
    /\ ingested = 0
    /\ extraction = NoExtraction
    /\ scoring = NoScoring
    /\ writers = NoWriters
    /\ classified = NoClassified
    /\ evaluation = NoEvaluation
    /\ resolver = [stage |-> "answers", rows |-> <<>>, run_cache |-> {}, prompts |-> <<>>,
                   returned |-> None, calls |-> 0]

\* one call of the resolver by an adapter filling a form
ResolveQuestion(label, ats_type, typed) ==
    /\ resolver.stage = "answers"
    /\ resolver.calls < MaxCalls
    /\ resolver' = [resolver_call(resolver, label, ats_type, typed) EXCEPT !.calls = @ + 1]
    /\ UNCHANGED <<store_vars, url_vars, extraction, scoring, writers, classified, evaluation>>

\* run, line 577: resolver = QuestionResolver(cfg) of the next run
NewResolver ==
    /\ resolver.stage = "answers"
    /\ resolver.run_cache # {}
    /\ resolver' = [resolver EXCEPT !.run_cache = {}, !.returned = None]
    /\ UNCHANGED <<store_vars, url_vars, extraction, scoring, writers, classified, evaluation>>

NextAnswers ==
    \/ \E label \in QuestionLabels, ats_type \in ResolverAts, typed \in TypedAnswers :
          ResolveQuestion(label, ats_type, typed)
    \/ NewResolver

SpecAnswers == InitAnswers /\ [][NextAnswers]_vars

(***************************************************************************)
(* The properties                                                          *)
(***************************************************************************)

\* number of applications of the job with id i
apps_of(apps, i) == Cardinality({a \in 1..Len(apps) : apps[a].job_post_id = i})

\* the active applications of the job with id i
active_apps_of(apps, i) ==
    {a \in 1..Len(apps) : apps[a].job_post_id = i /\ apps[a].status \in ActiveStatuses}

\* C1: after any sequence of ingestion calls the store holds at most one
\* JobPost row per url_hash, and ingesting a job whose url_hash is already
\* stored raises no error (the commit never fails on the unique constraint)
C1_OneRowPerHash ==
    /\ \A i, j \in 1..Len(job_posts) : job_posts[i].url_hash = job_posts[j].url_hash => i = j
    /\ last_error # "IntegrityError"

\* a fetch that carried an already stored url_hash was committed
C1_Witness == op = "fetch_dup" /\ last_error = "" /\ Len(job_posts) >= 1

\* the status changes a JobPost may go through
JobTransitions ==
    {<<"discovered", "queued">>, <<"discovered", "filtered_out">>, <<"queued", "skipped">>}

\* C2: a JobPost is created with status discovered, rows are never removed,
\* and a status only changes along discovered -> queued, discovered ->
\* filtered_out or queued -> skipped, whatever command takes the step
C2_JobLifecycle ==
    [][/\ Len(job_posts') >= Len(job_posts)
       /\ \A i \in 1..Len(job_posts') :
             IF i > Len(job_posts)
             THEN job_posts'[i].status = "discovered"
             ELSE \/ job_posts'[i].status = job_posts[i].status
                  \/ <<job_posts[i].status, job_posts'[i].status>> \in JobTransitions]_vars

\* jobs have reached both final statuses
C2_Witness ==
    /\ \E i \in 1..Len(job_posts) : job_posts[i].status = "skipped"
    /\ \E i \in 1..Len(job_posts) : job_posts[i].status = "filtered_out"

\* C3: when a queue pass over a non-empty set of discovered jobs returns,
\* each of those jobs is queued if score_job said should_queue and
\* filtered_out if not, whatever the threshold and the user's answer
C3_QueuePassDecides ==
    [][(pc = "queue_scored" /\ pc' = "idle") =>
          \A i \in 1..Len(job_posts) :
              /\ InSeq(i, to_queue) => job_posts'[i].status = "queued"
              /\ InSeq(i, filtered_out) => job_posts'[i].status = "filtered_out"]_vars

\* C4: no committed store state holds a job still discovered with a
\* fit_reason written by the scorer
C4_ScoreWithStatus ==
    \A i \in 1..Len(job_posts) : job_posts[i].status = "discovered" => job_posts[i].fit_reason = ""

\* C5: each JobPost has at most one Application that is queued, started,
\* filled or needs_review
C5_OneActiveApplication ==
    \A i \in 1..Len(job_posts) : Cardinality(active_apps_of(applications, i)) <= 1

\* reset has put the application of a skipped job back to queued
C5_Witness ==
    /\ op = "reset"
    /\ \E a \in 1..Len(applications) :
          /\ applications[a].status = "queued"
          /\ job_posts[applications[a].job_post_id].status = "skipped"

\* C6: a fetch or queue step leaves the status, fit_score and fit_reason of
\* every job that has left discovered as they are and creates no Application
\* for it
C6_SettledJobsUntouched ==
    [][(pc \in {"idle", "queue_scored"} /\ pc' \in {"idle", "queue_scored"}) =>
          \A i \in 1..Len(job_posts) :
              job_posts[i].status # "discovered" =>
                  /\ job_posts'[i].status = job_posts[i].status
                  /\ job_posts'[i].fit_score = job_posts[i].fit_score
                  /\ job_posts'[i].fit_reason = job_posts[i].fit_reason
                  /\ apps_of(applications', i) = apps_of(applications, i)]_vars

\* a fetch carried only jobs already stored, none of them discovered any
\* more and one of them skipped
C6_Witness ==
    /\ op = "fetch_dup"
    /\ \A i \in 1..Len(job_posts) : job_posts[i].status # "discovered"
    /\ \E i \in 1..Len(job_posts) : job_posts[i].status = "skipped"

\* the user typed YES, in any mix of cases (surrounding blanks aside)
TypedYes(typed) == strip(typed) \in {"YES", "YEs", "YeS", "Yes", "yES", "yEs", "yeS", "yes"}

\* C7: adapter.submit is called only after open_and_prepare, fill_form and
\* the review step (reach_review_step, or the manual gate for Workday), in
\* that order, and after the user typed YES; on any other answer submit is
\* not called and the application ends skipped
C7_SubmitOnlyAfterYes ==
    /\ InSeq("submit", calls) =>
          /\ calls \in {<<"open_and_prepare", "fill_form", "reach_review_step", "submit">>,
                        <<"open_and_prepare", "fill_form", "manual_review_gate", "submit">>}
          /\ answer # None
          /\ TypedYes(answer[1])
    /\ (answer # None /\ ~TypedYes(answer[1])) =>
          /\ ~InSeq("submit", calls)
          /\ applications[queued_apps[cur - 1]].status = "skipped"

\* submit was called after the user answered yes in lower case
C7_Witness ==
    /\ InSeq("submit", calls)
    /\ answer = Some("yes")
    /\ applications[queued_apps[cur - 1]].status = "submitted"

\* C8: canonicalise_url(canonicalise_url(u)) = canonicalise_url(u)
C8_Idempotent == Len(canons.a) = 2 => canons.a[2] = canons.a[1]

\* C9: url_hash(u) = url_hash(canonicalise_url(u))
C9_HashOfCanonical == hashes # <<>> => hashes[1].of_url = hashes[1].of_canon

\* C10: two URLs that differ only by tracking parameters and/or one trailing
\* slash on a non-root path have the same canonical URL and the same
\* url_hash, and are one JobPost once both are fetched
C10_SpellingsCollapse ==
    ingested = 2 =>
        /\ canons.a[1] = canons.b[1]
        /\ hashes[1].of_url = hashes[1].of_variant
        /\ Len(job_posts) = 1

\* the jobs emitted so far by parse_email_html and fetch_github_jobs
emitted_jobs == extraction.jobs \o extraction.readme_jobs

\* C11: every job emitted by parse_email_html or fetch_github_jobs has a
\* url_hash equal to the SHA-256 hex digest of its own url field
C11_HashOfOwnUrl ==
    \A i \in 1..Len(emitted_jobs) : emitted_jobs[i].url_hash = sha256_hexdigest(emitted_jobs[i].url)

\* the strategies, in the order of _extract_candidates, that found a candidate
yielding_strategies == {k \in 1..Len(extraction.strategies) : extraction.strategies[k] # <<>>}

\* C12: the candidates that _extract_candidates returns are those of the
\* first strategy, in the order native paragraphs, structured rows/cards,
\* ATS links, job-path links, that yields at least one candidate; no later
\* strategy contributes, and there are none when no strategy yields any
C12_FirstStrategyWins ==
    extraction.stage \in {"parsed", "fetched"} =>
        /\ Len(extraction.strategies) = 4
        /\ extraction.candidates =
              IF yielding_strategies = {} THEN <<>>
              ELSE extraction.strategies[Least(yielding_strategies)]

\* a document without native paragraphs in which the table rows, the ATS
\* links and the job-path links all find something: the rows win
C12_Witness ==
    /\ extraction.stage = "parsed"
    /\ yielding_strategies = {2, 3, 4}
    /\ extraction.candidates = extraction.strategies[2]
    /\ extraction.strategies[3] # extraction.strategies[2]
    /\ Len(extraction.jobs) = Len(extraction.strategies[2])

\* line 78: a candidate with a url and a title
has_url_and_title(candidate) == candidate.url # "" /\ candidate.title # ""

\* the hrefs of the blocks
LinkHrefs ==
    UNION {{Blocks[b].links[k].href : k \in 1..Len(Blocks[b].links)} : b \in 1..Len(Blocks)}

\* lines 81-82 for every href, computed once
CandidateHashes == [href \in LinkHrefs |-> url_hash(canonicalise_url(href))]

\* the hash under which a candidate is deduplicated
candidate_hash(candidate) == CandidateHashes[candidate.url]

\* the candidates, by position, that no earlier candidate of the same hash
\* precedes
first_of_hash ==
    {k \in 1..Len(extraction.candidates) :
        /\ has_url_and_title(extraction.candidates[k])
        /\ \A e \in 1..(k - 1) :
              has_url_and_title(extraction.candidates[e]) =>
                  candidate_hash(extraction.candidates[e]) # candidate_hash(extraction.candidates[k])}

\* the position of the i-th of them in candidate order
nth_first(i) == CHOOSE k \in first_of_hash : Cardinality({e \in first_of_hash : e <= k}) = i

\* C13: within one call of parse_email_html no two returned jobs share a
\* url_hash; of the candidates with the same hash only the first in candidate
\* order is kept, and the jobs come in the order of the candidates
C13_DedupKeepsFirstInOrder ==
    extraction.stage \in {"parsed", "fetched"} =>
        /\ \A i, j \in 1..Len(extraction.jobs) :
              i # j => extraction.jobs[i].url_hash # extraction.jobs[j].url_hash
        /\ Len(extraction.jobs) = Cardinality(first_of_hash)
        /\ \A i \in 1..Len(extraction.jobs) :
              /\ extraction.jobs[i].url_hash = candidate_hash(extraction.candidates[nth_first(i)])
              /\ extraction.jobs[i].title = extraction.candidates[nth_first(i)].title
              /\ extraction.jobs[i].company = extraction.candidates[nth_first(i)].company
              /\ extraction.jobs[i].location = extraction.candidates[nth_first(i)].location

\* a card whose third link is another spelling of its first: three
\* candidates, two jobs, the second posting after the first
C13_Witness ==
    /\ extraction.stage = "parsed"
    /\ Len(extraction.candidates) = 3
    /\ first_of_hash = {1, 2}
    /\ candidate_hash(extraction.candidates[3]) = candidate_hash(extraction.candidates[1])
    /\ extraction.candidates[3].url # extraction.candidates[1].url
    /\ Len(extraction.jobs) = 2
    /\ extraction.jobs[1].title = "SWE Intern"
    /\ extraction.jobs[2].title = "Data Intern"

\* the anchors of the document whose whitespace-collapsed, lowercased text
\* is not in the skip set, as pairs of block and link position
kept_anchors ==
    {bk \in (1..Len(extraction.document)) \X (1..3) :
        /\ bk[2] <= Len(extraction.document[bk[1]].links)
        /\ lower(_clean_text(extraction.document[bk[1]].links[bk[2]].text)) \notin _SKIP_TEXTS}

\* C14: under every strategy an anchor whose whitespace-collapsed, lowercased
\* text is in the skip set produces no job: every candidate was read from an
\* anchor whose text is not in the set, and a document whose anchors all read
\* a skip phrase ("Unsubscribe", "Privacy Policy") yields an empty list
\* whatever their hrefs
C14_SkippedAnchorsYieldNothing ==
    extraction.stage \in {"parsed", "fetched"} =>
        /\ \A i \in 1..Len(extraction.candidates) :
              \E bk \in kept_anchors :
                  extraction.document[bk[1]].links[bk[2]].href = extraction.candidates[i].url
        /\ kept_anchors = {} => extraction.jobs = <<>>

\* the titles scored so far
scored == {t \in {"a", "b"} : scoring.stage = "input" /\ scoring.results[t] # None}

\* the ScoringResult returned for title t
result_of(t) == scoring.results[t][1]

\* the configured excluded locations, by position, that are a
\* case-insensitive substring of the location
excluded_matches ==
    {i \in 1..Len(scoring.cfg.excluded_locations) :
        Contains(lower(scoring.cfg.excluded_locations[i]), lower(OrEmpty(scoring.location)))}

\* the configured keywords, by position, that title t matches
keywords_in(t) ==
    {i \in 1..Len(scoring.cfg.title_keywords) :
        Contains(lower(scoring.cfg.title_keywords[i]), lower(scoring.titles[t]))}

\* str.endswith
EndsWith(s, suffix) == Len(suffix) <= Len(s) /\ Drop(s, Len(s) - Len(suffix)) = suffix

\* C15: for every title, location, ats_type and configuration score_job
\* returns a score with 0.0 <= score <= 1.0
C15_ScoreInUnitInterval ==
    \A t \in scored : result_of(t).score >= 0 /\ result_of(t).score <= 1000

\* five keywords on ashby at a remote location reach 0.50 + 0.20 + 0.05, the
\* most the scorer gives; the other title, with two keywords, gets 0.65
C15_Witness ==
    /\ scored = {"a", "b"}
    /\ Cardinality(keywords_in("a")) = 5
    /\ scoring.ats_type = Some("ashby")
    /\ scoring.location = Some("Remote")
    /\ result_of("a").score = 750
    /\ result_of("b").score = 650

\* C16: if a configured excluded location is a case-insensitive substring of
\* the location, the score is exactly 0.0, should_queue is false and the
\* reason ends in "excluded location: <match>", whatever the keywords, the
\* ATS, the preferred locations and min_score
C16_ExcludedLocationZero ==
    \A t \in scored :
        excluded_matches # {} =>
            /\ result_of(t).score = 0
            /\ ~result_of(t).should_queue
            /\ \E i \in excluded_matches :
                  EndsWith(result_of(t).reason,
                           "excluded location: " \o scoring.cfg.excluded_locations[i])

\* a title with two keywords on ashby, at a remote location that a preferred
\* location would reward, under threshold 0: excluded for "india"
C16_Witness ==
    /\ "a" \in scored
    /\ scoring.titles.a = "Software Engineer Intern"
    /\ scoring.ats_type = Some("ashby")
    /\ scoring.location = Some("REMOTE - India")
    /\ scoring.cfg.preferred_locations # <<>>
    /\ scoring.cfg.min_score = 0
    /\ excluded_matches = {2, 3}
    /\ result_of("a") =
          [score |-> 0,
           reason |-> "title matches: intern, software engineer; preferred ATS (ashby +20%); "
                      \o "excluded location: india",
           should_queue |-> FALSE]

\* C17 as stated: should_queue is true exactly when score >= cfg.min_score
C17_QueuedIffAtThreshold ==
    \A t \in scored : result_of(t).should_queue <=> result_of(t).score >= scoring.cfg.min_score

\* C17: should_queue is true exactly when no excluded location matched and
\* score >= cfg.min_score; a job scoring exactly min_score is queued
C17_QueuedIffAtThresholdUnlessExcluded ==
    \A t \in scored :
        result_of(t).should_queue <=>
            (excluded_matches = {} /\ result_of(t).score >= scoring.cfg.min_score)

\* a job that scores exactly min_score = 0.60 is queued, and the other title
\* of the scoring, below the threshold, is not
C17_Witness ==
    /\ scored = {"a", "b"}
    /\ scoring.cfg.min_score = 600
    /\ result_of("a").score = 600
    /\ result_of("a").should_queue
    /\ result_of("b").score = 200
    /\ ~result_of("b").should_queue

\* C18: for the same configuration, ats_type and location, if the keywords
\* matched by title a include those matched by title b, then the score of a
\* is at least the score of b
C18_MoreKeywordsNeverLess ==
    scored = {"a", "b"} =>
        (keywords_in("b") \subseteq keywords_in("a") => result_of("a").score >= result_of("b").score)

\* title a matches the two keywords of title b and three more, and scores
\* higher
C18_Witness ==
    /\ scored = {"a", "b"}
    /\ keywords_in("b") # {}
    /\ keywords_in("b") \subseteq keywords_in("a")
    /\ Cardinality(keywords_in("a")) = Cardinality(keywords_in("b")) + 3
    /\ result_of("a").score = result_of("b").score + 100

\* the scoring of "Software Engineer Intern" on ashby with no location under
\* the default FilterConfig
default_swe_intern(t) ==
    /\ t \in scored
    /\ scoring.titles[t] = "Software Engineer Intern"
    /\ scoring.location = None
    /\ scoring.ats_type = Some("ashby")
    /\ scoring.cfg = DefaultFilterConfig

shared_hashes ==
    {writers.procs[1].jobs[i].url_hash : i \in 1..Len(writers.procs[1].jobs)}
    \cap {writers.procs[2].jobs[i].url_hash : i \in 1..Len(writers.procs[2].jobs)}

\* both runs are over
runs_over == \A w \in Writers : writers.procs[w].status # "storing"

\* C20: when two ingestion runs, each with its own session, carry a job with
\* the same url_hash, then however they interleave the store ends with
\* exactly one JobPost row for that hash and neither run fails with an error
C20_InterleavedRunsBothSucceed ==
    (writers.stage = "running" /\ runs_over /\ shared_hashes # {}) =>
        /\ \A h \in shared_hashes :
              Cardinality({i \in 1..Len(job_posts) : job_posts[i].url_hash = h}) = 1
        /\ \A w \in Writers : writers.procs[w].status = "committed"

\* the anchors of an Application cell, by position, that wrap an image whose
\* alt text is "Apply" in any mix of cases
apply_anchors(td) ==
    {k \in 1..Len(td.anchors) :
        /\ td.anchors[k].href # None
        /\ \E i \in 1..Len(td.anchors[k].imgs) : lower(td.anchors[k].imgs[i]) = "apply"}

\* canonicalise_url for every href of the feed, computed once
FeedCanons ==
    [href \in UNION {{r.application_td.anchors[k].href : k \in 1..Len(r.application_td.anchors)}
                        : r \in FeedRows} |->
        IF href = None THEN "" ELSE canonicalise_url(href[1])]

\* C21: a feed table row yields a job only if its Application cell holds no
\* lock glyph and an anchor around an image whose alt text is exactly "Apply"
\* (case-insensitive), and the job's url then comes from the first such
\* anchor; a row with a lock glyph or with only other anchors yields no job
C21_ApplyAnchorOnly ==
    extraction.stage = "feed_fetched" =>
        \A j \in 1..Len(extraction.readme_jobs) :
            \E i \in 1..Len(extraction.readme) :
                /\ extraction.readme[i].company = extraction.readme_jobs[j].company
                /\ ~Contains(LockGlyph, extraction.readme[i].application_td.text)
                /\ apply_anchors(extraction.readme[i].application_td) # {}
                /\ extraction.readme_jobs[j].url =
                      FeedCanons[extraction.readme[i].application_td.anchors[
                          Least(apply_anchors(extraction.readme[i].application_td))].href]

\* the tags whose patterns the classified url matches
matching_tags == {AtsPatterns[k].tag : k \in ats_tests_passed(lower(classified.url))}

\* C22 as stated: no url matches the patterns of two different tags, so the
\* tag detected is the same when the tests are made in the opposite order
C22_PatternsDisjoint ==
    classified.stage = "detected" =>
        /\ Cardinality(matching_tags) <= 1
        /\ classified.ats = ats_of_last(lower(classified.url))

\* C22: detect_ats_from_url returns the tag of the first test, in the order
\* ashby, greenhouse, lever, workday, smartrecruiters, icims, taleo,
\* workable, breezy, simplify, one of whose patterns is a substring of the
\* lowercased url, and unknown when there is none
C22_FirstPatternWins ==
    classified.stage = "detected" =>
        classified.ats = IF ats_tests_passed(lower(classified.url)) = {} THEN "unknown"
                         ELSE AtsPatterns[Least(ats_tests_passed(lower(classified.url)))].tag

\* a lever posting reached with a gh_jid parameter matches the patterns of
\* greenhouse and of lever, and is classified greenhouse
C22_Witness ==
    /\ classified.stage = "detected"
    /\ classified.url = "https://jobs.lever.co/acme/1?gh_jid=4"
    /\ matching_tags = {"greenhouse", "lever"}
    /\ classified.ats = "greenhouse"

\* the comparison is between scorings of a location that no excluded
\* location matches
compared == scoring.stage = "compare" /\ excluded_matches = {}

\* C23: for the same title, configuration and location, matching no excluded
\* location, ashby scores exactly 0.20 above an unlisted ATS, greenhouse and
\* lever exactly 0.10 above it, and every unlisted ats_type (workday, None)
\* scores as unknown does
C23_AtsBoost ==
    (compared /\ scoring.by_ats # None) =>
        /\ scoring.by_ats[1][Some("ashby")].score = scoring.by_ats[1][Some("unknown")].score + 200
        /\ scoring.by_ats[1][Some("greenhouse")].score = scoring.by_ats[1][Some("unknown")].score + 100
        /\ scoring.by_ats[1][Some("lever")].score = scoring.by_ats[1][Some("unknown")].score + 100
        /\ scoring.by_ats[1][Some("workday")].score = scoring.by_ats[1][Some("unknown")].score
        /\ scoring.by_ats[1][None].score = scoring.by_ats[1][Some("unknown")].score

\* a title with five keywords at a remote location: 0.55 unlisted, 0.75 on
\* ashby
C23_Witness ==
    /\ compared
    /\ scoring.by_ats # None
    /\ scoring.by_ats[1][Some("workday")].score = 550
    /\ scoring.by_ats[1][Some("ashby")].score = 750
    /\ scoring.by_ats[1][Some("lever")].score = 650

\* the condition under which the location bonus is due: with preferred
\* locations, one of them is a case-insensitive substring of the location or
\* the location contains "remote"; with none, the location contains "remote"
bonus_due ==
    \/ Contains("remote", lower(OrEmpty(scoring.location)))
    \/ \E i \in 1..Len(scoring.cfg.preferred_locations) :
          Contains(lower(scoring.cfg.preferred_locations[i]), lower(OrEmpty(scoring.location)))

becomes(a, S) == applications[a].status \notin S /\ applications'[a].status \in S

\* C25 as stated: in every step a JobPost turns skipped exactly when one of
\* its applications turns submitted, and an application that turns skipped or
\* error leaves its JobPost as it was, with status queued
C25_SkippedIffSubmitted ==
    [][/\ \A i \in 1..Len(job_posts) :
            (job_posts[i].status # "skipped" /\ job_posts'[i].status = "skipped")
                <=> \E a \in 1..Len(applications) :
                        applications[a].job_post_id = i /\ becomes(a, {"submitted"})
       /\ \A a \in 1..Len(applications) :
            becomes(a, {"skipped", "error"}) =>
                /\ job_posts'[applications[a].job_post_id] = job_posts[applications[a].job_post_id]
                /\ job_posts[applications[a].job_post_id].status = "queued"]_vars

\* C25, amended: a JobPost turns skipped only in a step in which one of its
\* applications turns submitted, it is skipped after every such step, and an
\* application that turns skipped or error leaves its JobPost as it was:
\* queued, or skipped when an earlier submitted application of the job was
\* reset
C25_SkippedOnlyWithSubmitted ==
    [][/\ \A i \in 1..Len(job_posts) :
            (job_posts[i].status # "skipped" /\ job_posts'[i].status = "skipped")
                => \E a \in 1..Len(applications) :
                        applications[a].job_post_id = i /\ becomes(a, {"submitted"})
       /\ \A a \in 1..Len(applications) :
            /\ becomes(a, {"submitted"}) => job_posts'[applications[a].job_post_id].status = "skipped"
            /\ becomes(a, {"skipped", "error"}) =>
                /\ job_posts'[applications[a].job_post_id] = job_posts[applications[a].job_post_id]
                /\ job_posts[applications[a].job_post_id].status \in {"queued", "skipped"}]_vars

\* an application ended skipped or error in a run and its JobPost is skipped:
\* it had been submitted and reset before
C25_Witness ==
    /\ pc = "run_loop"
    /\ cur = 2
    /\ applications[queued_apps[1]].status \in {"skipped", "error"}
    /\ job_posts[applications[queued_apps[1]].job_post_id].status = "skipped"

\* the queued applications a run starting now leaves out are those behind the
\* one application that --limit 1 lets through
picked_up(a) == InSeq(a, queued_apps') \/ (Len(queued_apps') = 1 /\ queued_apps'[1] < a)

\* C28: a reset puts one application, whatever its status, back to queued with
\* no error_message and changes nothing else, no JobPost field in particular;
\* a run that starts picks every queued application up to its limit, whatever
\* the status of the application's JobPost
C28_ResetRequeues ==
    [][/\ op' = "reset" =>
            /\ job_posts' = job_posts
            /\ \E a \in 1..Len(applications) :
                  applications' = [applications EXCEPT ![a] = [@ EXCEPT !.status = "queued",
                                                                         !.error_message = None]]
       /\ (pc = "idle" /\ pc' = "run_loop") =>
            \A a \in 1..Len(applications) : applications[a].status = "queued" => picked_up(a)]_vars

\* a run has picked up and started an application whose JobPost is skipped:
\* the application had been submitted and was reset
C28_Witness ==
    /\ pc = "app_started"
    /\ applications[app_id].status = "started"
    /\ applications[app_id].error_message = None
    /\ job_posts[job_id].status = "skipped"

\* an exception other than KeyboardInterrupt is raised in this step of the
\* application at hand, which is marked started
raises_after_started ==
    /\ pc \in {"app_started", "app_opened", "app_filled", "app_review", "app_gate"}
    /\ last_error' = "Error" \/ becomes(app_id, {"error"})

\* C29: when a step of an application marked started raises, the application
\* is marked error with an error_message, its JobPost is left alone, and the
\* run goes on with the next application
C29_ExceptionMarksError ==
    [][raises_after_started =>
          /\ applications'[app_id].status = "error"
          /\ applications'[app_id].error_message # None
          /\ job_posts' = job_posts
          /\ pc' = "run_loop"
          /\ cur' = cur + 1
          /\ run_status' = "running"]_vars

\* C30: a fetch with dry_run = true, from the feed or from the mailbox,
\* whatever it parsed, leaves the job_posts, emails and applications tables
\* as they were
C30_DryRunLeavesStore ==
    [][((\E jobs \in GithubFetches : FetchGithub(jobs, TRUE))
            \/ (\E raw_emails \in RawEmailLists : FetchGmail(raw_emails, TRUE)))
         => UNCHANGED <<job_posts, emails, applications>>]_vars

\* a dry run reported jobs it would have stored, and the store is empty
C30_Witness ==
    /\ op = "fetch_dry"
    /\ job_posts = <<>>
    /\ emails = <<>>

\* both runs of the application are over
both_done == evaluation.stage = "runs" /\ \A r \in Runs : evaluation.runs[r].pc = "done"

\* C26: two runs that differ only in the reply of the LLM and get the same
\* answer at the submit prompt end with the same status and the same decision
\* to call submit; evaluate_application raises in neither, and gives NA when
\* the key is missing or the call fails
C26_LlmAdvisoryOnly ==
    /\ both_done =>
          /\ evaluation.runs["a"].status = evaluation.runs["b"].status
          /\ evaluation.runs["a"].calls = evaluation.runs["b"].calls
    /\ evaluation.stage = "runs" =>
          \A r \in Runs :
             evaluation.runs[r].evaluated # None =>
                /\ ~evaluation.runs[r].evaluated[1].raised
                /\ (evaluation.api_key = "" \/ evaluation.runs[r].reply = Some("failure"))
                      => evaluation.runs[r].evaluated[1].recommendation = "NA"

\* the pair (label stripped and lowercased, ats_type) of a prompt or a row
pair_of(label, ats_type) == <<lower(strip(label)), ats_type>>

\* the pairs the user was asked about, in order
prompted_pairs == [i \in 1..Len(resolver.prompts) |-> pair_of(resolver.prompts[i][1], resolver.prompts[i][2])]

\* the stored answer of the pair of the last call
stored_answer ==
    (CHOOSE row \in {resolver.rows[i] : i \in 1..Len(resolver.rows)} :
        pair_of(row.question_label, row.ats_type)
            = pair_of(resolver.returned[1].label, resolver.returned[1].ats_type)).answer

\* C27: the user is asked at most once per pair (label stripped and
\* lowercased, ats_type), a call that does not ask returns the stored answer
\* of its pair, a call that asks is the first of its pair, and no two rows of
\* question_answers have the same pair
C27_AskedOncePerPair ==
    resolver.stage = "answers" =>
        /\ \A i, j \in 1..Len(prompted_pairs) : prompted_pairs[i] = prompted_pairs[j] => i = j
        /\ \A i, j \in 1..Len(resolver.rows) :
              pair_of(resolver.rows[i].question_label, resolver.rows[i].ats_type)
                  = pair_of(resolver.rows[j].question_label, resolver.rows[j].ats_type) => i = j
        /\ resolver.returned # None =>
              /\ resolver.returned[1].answer = stored_answer
              /\ resolver.returned[1].prompted =>
                    prompted_pairs[Len(prompted_pairs)]
                        = pair_of(resolver.returned[1].label, resolver.returned[1].ats_type)

\* a later run asks for " gpa " on ashby, answered as "GPA" in an
\* earlier run: the saved answer is returned, the user was asked once, and
\* one row is stored
C27_Witness ==
    /\ resolver.stage = "answers"
    /\ resolver.calls = 2
    /\ resolver.prompts = <<<<"GPA", "ashby">>>>
    /\ resolver.rows = <<[question_label |-> "gpa", ats_type |-> "ashby", answer |-> "3.9"]>>
    /\ resolver.run_cache = {<<"ashby::gpa", "3.9">>}
    /\ resolver.returned = Some([label |-> " gpa ", ats_type |-> "ashby", answer |-> "3.9",
                                 prompted |-> FALSE])

=============================================================================
